---------------------------- MODULE Spec2Model ----------------------------
(***************************************************************************)
(* changes-roller: PatchExecutor.execute() fans the per-repository         *)
(* workflow (_process_repository) out over a ThreadPoolExecutor of four    *)
(* workers and folds the tasks' booleans into one verdict.                 *)
(*                                                                         *)
(* Eight specifications:                                                   *)
(*   Spec        one repository, every policy configuration and every      *)
(*               failure, the workflow taken one stage at a time           *)
(*               (WorkflowStep);                                           *)
(*   SpecPool    PoolRepos repositories under the plain configuration; a   *)
(*               task may raise before its try block, fail to clone, find  *)
(*               no changes or succeed;                                    *)
(*   SpecWorkers NumRepos repositories, more than the pool has workers,    *)
(*               under the plain configuration; a task may raise before    *)
(*               its try block or succeed;                                 *)
(*   SpecCli     the create command over two repositories: configuration   *)
(*               errors, user interruption, exit codes, and the workspace  *)
(*               with its cleanup;                                         *)
(*   SpecNames   two different repositories named by locators of every     *)
(*               form, committing with templates of every make;            *)
(*   SpecGit     one clone in every state of its branches, and the         *)
(*               Repository methods run_command, branch_exists and         *)
(*               checkout_branch called on it, with every way their        *)
(*               subprocesses may end;                                     *)
(*   SpecFair    the pool under fairness, with fewer repositories than     *)
(*               workers, as many, and more: termination;                  *)
(*   SpecRun     Spec without its dry-run configurations.                  *)
(* In all but Spec, SpecRun and SpecGit a worker runs its workflow in one  *)
(* step (RunWorkflow): the stages of one workflow touch nothing another    *)
(* thread reads but reporter.results, which they append to.                *)
(***************************************************************************)
EXTENDS Integers, Sequences, FiniteSets, TLC

\* ThreadPoolExecutor(max_workers=4)
MaxWorkers == 4

\* Bounds of the model.
NumRepos == 5
PoolRepos == 3
MaxCmds == 2
MaxPieces == 2
MaxCleanups == 2

VARIABLES
    config,        \* SeriesConfig
    exit_on_error, \* PatchExecutor.exit_on_error
    script,        \* what Path(config.commands) is on disk
    hazards,       \* the failures the environment may produce: <<operation, kind>>
    orch,          \* where execute() stands
    all_success,   \* execute()'s local all_success
    cancel_idx,    \* position of `for f in futures: f.cancel()`
    observed,      \* futures as_completed() has yielded to the loop
    fut,           \* state of each Future
    task,          \* each _process_repository call's locals and call history
    results,       \* Reporter.results
    retval,        \* what execute() returned
    workspace,     \* Workspace.path, whether its directory is on disk, call counts
    error,         \* class of the exception propagating in the main thread
    exit_code,     \* what the create command passed to sys.exit
    git            \* one clone: its refs, and the last Repository method called on it

vars == <<config, exit_on_error, script, hazards, orch, all_success,
          cancel_idx, observed, fut, task, results, retval,
          workspace, error, exit_code, git>>

---------------------------------------------------------------------------
(* Repository locators and Repository._extract_repo_name.  A locator is the *)
(* sequence of its characters.                                              *)

DotGit == <<".", "g", "i", "t">>

RepoLetters == <<"a", "b", "c", "d", "e", "f", "g", "h">>

RECURSIVE RStrip(_, _)
RStrip(s, ch) ==
    IF Len(s) > 0 /\ s[Len(s)] = ch
    THEN RStrip(SubSeq(s, 1, Len(s) - 1), ch)
    ELSE s

\* url.split("/")[-1]
LastPart(s) ==
    LET cuts == {k \in 1..Len(s) : s[k] = "/"}
        last == IF cuts = {} THEN 0 ELSE CHOOSE k \in cuts : \A j \in cuts : j <= k
    IN SubSeq(s, last + 1, Len(s))

EndsWith(s, suffix) ==
    /\ Len(s) >= Len(suffix)
    /\ SubSeq(s, Len(s) - Len(suffix) + 1, Len(s)) = suffix

ExtractRepoName(url) ==
    LET name == LastPart(RStrip(url, "/"))
    IN IF EndsWith(name, DotGit) THEN SubSeq(name, 1, Len(name) - 4) ELSE name

\* "o/<letter>.git"
Locator(i) == <<"o", "/", RepoLetters[i]>> \o DotGit

Repos == 1..Len(config.projects)

RepoName(i) == ExtractRepoName(config.projects[i])

---------------------------------------------------------------------------
(* Locators of the forms the tool is given, and the commit message         *)
(* template.  Strings the code scans are sequences of their characters.    *)

HttpsPrefix == <<"h", "t", "t", "p", "s", ":", "/", "/", "h", "/", "o", "/">>
SshPrefix == <<"g", "i", "t", "@", "h", ":", "o", "/">>
\* scp-like locator of a repository at the top of the remote account
SshBarePrefix == <<"g", "i", "t", "@", "h", ":">>

\* the same host, another organisation
OtherOrgPrefix == <<"h", "t", "t", "p", "s", ":", "/", "/", "h", "/", "p", "/">>

LocatorPrefixes == {HttpsPrefix, SshPrefix, SshBarePrefix, OtherOrgPrefix}

\* The account or organisation a prefix points into.
OrgOf(prefix) ==
    CASE prefix = OtherOrgPrefix -> "p"
      [] prefix = SshBarePrefix -> "~"
      [] OTHER -> "o"
LocatorNames == {"a", "b"}
LocatorTails == {<<>>, DotGit, DotGit \o <<"/">>, <<"/">>}

\* The locator of repository `nm` in one of the forms.
BuildLocator(prefix, nm, tail) == prefix \o <<nm>> \o tail

LocatorParts == LocatorPrefixes \X LocatorNames \X LocatorTails

SpacedPlaceholder == <<"{", "{", " ", "p", "r", "o", "j", "e", "c", "t", "_", "n", "a", "m", "e", " ", "}", "}">>
UnspacedPlaceholder == <<"{", "{", "p", "r", "o", "j", "e", "c", "t", "_", "n", "a", "m", "e", "}", "}">>

\* str.replace(old, new): every occurrence, left to right, without overlap.
RECURSIVE Replace(_, _, _)
Replace(s, old, new) ==
    IF Len(s) < Len(old)
    THEN s
    ELSE IF SubSeq(s, 1, Len(old)) = old
         THEN new \o Replace(SubSeq(s, Len(old) + 1, Len(s)), old, new)
         ELSE <<Head(s)>> \o Replace(Tail(s), old, new)

\* A rendering that knows the spaced placeholder only.
RenderCommitMessageSpacedOnly(template, repo_name) ==
    Replace(template, SpacedPlaceholder, repo_name)

\* PatchExecutor._render_commit_message
RenderCommitMessage(template, repo_name) ==
    Replace(Replace(template, SpacedPlaceholder, repo_name),
            UnspacedPlaceholder, repo_name)

\* The pieces commit message templates are put together from: plain text, the
\* placeholder in its two forms, and a brace form that is no placeholder.
PieceKinds == {"text", "spaced", "unspaced", "other"}

PieceText(kind) ==
    CASE kind = "text" -> <<"F", "i", "x", " ">>
      [] kind = "spaced" -> SpacedPlaceholder
      [] kind = "unspaced" -> UnspacedPlaceholder
      [] OTHER -> <<"{", "{", " ", "p", "r", "o", "j", "e", "c", "t", "_", "n", "a", "m", "e", "}", "}">>

RECURSIVE JoinPieces(_)
JoinPieces(pieces) ==
    IF pieces = <<>> THEN <<>> ELSE PieceText(Head(pieces)) \o JoinPieces(Tail(pieces))

Pieces == UNION {[1..n -> PieceKinds] : n \in 0..MaxPieces}

\* "Fix {{ project_name }}"
DefaultTemplate == JoinPieces(<<"text", "spaced">>)

---------------------------------------------------------------------------
(* SeriesConfig                                                            *)

PreCmdNames == <<"pre1", "pre2", "pre3", "pre4">>
PostCmdNames == <<"post1", "post2", "post3", "post4">>

NoBranch == "None"

ConfigSpace(projects) ==
    [ projects : {projects},
      commit_msg : {DefaultTemplate},
      topic : {"", "topic"},
      commit : BOOLEAN,
      review : BOOLEAN,
      run_tests : BOOLEAN,
      tests_blocking : BOOLEAN,
      branch : {NoBranch, "feature"},
      create_branch : BOOLEAN,
      stay_on_branch : BOOLEAN,
      pre_commands : {SubSeq(PreCmdNames, 1, n) : n \in {0, MaxCmds}},
      post_commands : {SubSeq(PostCmdNames, 1, n) : n \in {0, MaxCmds}},
      continue_on_error : BOOLEAN,
      dry_run : BOOLEAN ]

\* The dataclass defaults, with commit = false as in the multi-repository test.
PlainConfig(projects) ==
    [ projects |-> projects,
      commit_msg |-> DefaultTemplate,
      topic |-> "",
      commit |-> FALSE,
      review |-> FALSE,
      run_tests |-> FALSE,
      tests_blocking |-> FALSE,
      branch |-> NoBranch,
      create_branch |-> FALSE,
      stay_on_branch |-> FALSE,
      pre_commands |-> <<>>,
      post_commands |-> <<>>,
      continue_on_error |-> FALSE,
      dry_run |-> FALSE ]

\* The patch script's path: absent, a directory, or a regular file with its
\* execute bit and whether the system refuses this process a chmod of it.
ScriptStates ==
    { [kind |-> "missing", exec |-> FALSE, locked |-> FALSE],
      [kind |-> "dir", exec |-> TRUE, locked |-> FALSE] }
    \cup [kind : {"file"}, exec : BOOLEAN, locked : BOOLEAN]

---------------------------------------------------------------------------
(* The environment: what an operation may do other than succeed with its   *)
(* usual answer: raise an exception of a class, exit non-zero ("fail"), or *)
(* give the other answer (has_changes "false": the patch changed nothing;  *)
(* has_uncommitted_changes "true"; branch_exists "false";                  *)
(* get_current_branch "": a detached HEAD).                                *)

RaisingOps ==
    {"clone", "setup_review", "has_changes", "has_uncommitted_changes",
     "stage_all", "commit", "submit_review", "get_current_branch",
     "create_branch", "checkout_branch"}

AllHazards ==
    (RaisingOps \X {"RepositoryError", "Exception"})
    \cup {<<"branch_exists", "RepositoryError">>}
    \cup {<<"begin", "Exception">>}
    \cup ({"pre_command", "patch", "test", "post_command"} \X {"fail"})
    \cup {<<"has_changes", "false">>, <<"has_uncommitted_changes", "true">>,
          <<"branch_exists", "false">>, <<"get_current_branch", "">>}

PoolHazards ==
    {<<"begin", "Exception">>, <<"clone", "RepositoryError">>, <<"has_changes", "false">>}

WorkersHazards ==
    {<<"begin", "Exception">>}

\* The ways a call of `op` may end: "ok" or an exception class.
Outcomes(op) ==
    {"ok"} \cup {k \in {"RepositoryError", "Exception"} : <<op, k>> \in hazards}

\* The ways subprocess.run(command, shell=True, timeout=600) may end: the
\* command exits with status zero or not, outlives the timeout, or cannot be
\* launched (OSError and the like).
ProcessEnds == {"exit0", "exit1", "timeout", "oserror"}

\* What the method hands to its caller: the exception class it raised, if
\* any, the value it returned, and the subprocesses it launched.
MethodResult(raised, value, log) == [raised |-> raised, value |-> value, log |-> log]

\* A run_command without the handler for TimeoutExpired.
RunCommandTimeoutRaises(command, end) ==
    CASE end = "exit0" -> MethodResult("none", <<"true", "stdout", "stderr">>, <<command>>)
      [] end = "exit1" -> MethodResult("none", <<"false", "stdout", "stderr">>, <<command>>)
      [] end = "timeout" -> MethodResult("TimeoutExpired", <<>>, <<command>>)
      [] end = "oserror" -> MethodResult("none", <<"false", "", "str(e)">>, <<command>>)

\* Repository.run_command: (success, stdout, stderr).
RunCommand(command, end) ==
    CASE end = "exit0" -> MethodResult("none", <<"true", "stdout", "stderr">>, <<command>>)
      [] end = "exit1" -> MethodResult("none", <<"false", "stdout", "stderr">>, <<command>>)
      [] end = "timeout" ->
            MethodResult("none", <<"false", "", "Command timed out after 10 minutes">>, <<command>>)
      [] end = "oserror" -> MethodResult("none", <<"false", "", "str(e)">>, <<command>>)

\* What the workflow reads of a run_command call: the success flag, unless
\* the call raised.
CommandResult(r) ==
    IF r.raised # "none" THEN r.raised ELSE IF r.value[1] = "true" THEN "ok" ELSE "fail"

\* The ways a command of kind `op` may end.
CommandEnds(op) ==
    {"exit0"} \cup (IF <<op, "fail">> \in hazards THEN ProcessEnds ELSE {})

\* What the workflow may see of a command of kind `op`.
CmdOutcomes(op) ==
    {CommandResult(RunCommand(op, end)) : end \in CommandEnds(op)}
\* git rev-parse --abbrev-ref HEAD in a clone whose HEAD is on branch `head`
\* ("" when detached): the branch name, or the word HEAD.
RevParseAbbrevRef(head) == IF head = "" THEN "HEAD" ELSE head

\* A get_current_branch that raises when HEAD is detached.
GetCurrentBranchDetachedRaises(head, end) ==
    LET command == <<"rev-parse", "--abbrev-ref", "HEAD">>
        branch == RevParseAbbrevRef(head)
    IN CASE end = "exit0" ->
                IF branch = "HEAD"
                THEN MethodResult("RepositoryError", <<>>, <<command>>)
                ELSE MethodResult("none", branch, <<command>>)
         [] end = "exit1" -> MethodResult("RepositoryError", <<>>, <<command>>)
         [] end = "oserror" -> MethodResult("OSError", <<>>, <<command>>)

\* Repository.get_current_branch: "" if the output is HEAD, else the output;
\* only CalledProcessError is turned into RepositoryError.
GetCurrentBranch(head, end) ==
    LET command == <<"rev-parse", "--abbrev-ref", "HEAD">>
        branch == RevParseAbbrevRef(head)
    IN CASE end = "exit0" ->
                MethodResult("none", IF branch = "HEAD" THEN "" ELSE branch, <<command>>)
         [] end = "exit1" -> MethodResult("RepositoryError", <<>>, <<command>>)
         [] end = "oserror" -> MethodResult("OSError", <<>>, <<command>>)

\* What the workflow sees of a get_current_branch call: the branch, or the
\* handler the exception goes to.
CurrentBranchResult(r) ==
    CASE r.raised = "none" -> r.value
      [] r.raised = "RepositoryError" -> "RepositoryError"
      [] OTHER -> "Exception"

\* The HEADs a fresh clone may be on: its default branch, or detached.
CloneHeads ==
    {"main"} \cup {h \in {""} : <<"get_current_branch", h>> \in hazards}

\* The ways the subprocess of get_current_branch may end in this run: it exits
\* with status zero or not, or cannot be launched; no timeout is set.
CurrentBranchEndsHere ==
    {"exit0"}
    \cup {e \in {"exit1"} : <<"get_current_branch", "RepositoryError">> \in hazards}
    \cup {e \in {"oserror"} : <<"get_current_branch", "Exception">> \in hazards}

\* The ways a call of `op` that returns an answer may end: the usual answer, the
\* other one, or an exception class.
Answers(op, usual, other) ==
    {usual} \cup {k \in {other} : <<op, k>> \in hazards} \cup (Outcomes(op) \ {"ok"})

---------------------------------------------------------------------------
(* One _process_repository call.  Its locals: pc (the stage it stands at), *)
(* k (the index of the pre-/post-command loop), original_branch, ret (the  *)
(* value it returned), commit_msg (the rendered commit message); calls is   *)
(* the history of the adapter and reporter calls it made, narration the    *)
(* "[DRY RUN] Would ..." lines it printed, out the records it has handed   *)
(* to Reporter.add_result and the action has yet to append to              *)
(* Reporter.results.                                                       *)

IdleTask ==
    [ pc |-> "idle", k |-> 1, original_branch |-> "None",
      calls |-> <<>>, narration |-> <<>>, commit_msg |-> <<>>,
      ret |-> "none", out |-> <<>> ]

Terminal == {"done", "raised"}

Goto(t, stage) == [t EXCEPT !.pc = stage]

Call(t, op, arg, result) ==
    [t EXCEPT !.calls = Append(@, [op |-> op, arg |-> arg, result |-> result])]

\* print_step(Status.INFO, "[DRY RUN] Would ...")
Narrate(t, would, arg) ==
    [t EXCEPT !.narration = Append(@, [would |-> would, arg |-> arg])]

\* Reporter.add_result
AddResult(t, name, status, details) ==
    [Call(t, "add_result", status, "ok") EXCEPT
        !.out = Append(@, [repo |-> name, status |-> status, details |-> details])]

Return(t, value) == [t EXCEPT !.pc = "done", !.ret = value]

\* The handler returns False without recording a result.
HandleRepositoryErrorSilent(t, name, e) ==
    Return(t, "false")

\* except RepositoryError as e
HandleRepositoryError(t, name, e) ==
    Return(AddResult(t, name, "failed", e), "false")

\* No handler for unexpected errors: the exception leaves the workflow.
HandleExceptionReraises(t, name, e) ==
    Goto(t, "raised")

\* except Exception as e
HandleException(t, name, e) ==
    Return(AddResult(t, name, "failed", e), "false")

\* An exception of class `kind` raised by `op` inside the try block.
Raise(t, name, kind, op) ==
    IF kind = "RepositoryError"
    THEN HandleRepositoryError(t, name, <<"RepositoryError", op>>)
    ELSE HandleException(t, name, <<"Exception", op>>)

\* return False without the add_result before it.
ReportFailedUnrecorded(t, name, details) ==
    Return(t, "false")
\* A failure exit that takes back the commit the workflow has made.
ReportFailedUndoesCommit(t, name, details) ==
    LET made == \E k \in 1..Len(t.calls) :
                    t.calls[k].op = "commit" /\ t.calls[k].result = "ok"
        t1 == IF made THEN Call(t, "reset", "HEAD~1", "ok") ELSE t
    IN Return(AddResult(t1, name, "failed", details), "false")

\* A failure exit that first returns to the recorded original branch.
ReportFailedRestores(t, name, details) ==
    LET t1 == IF t.original_branch \notin {"None", ""}
              THEN Call(t, "checkout_branch", t.original_branch, "ok")
              ELSE t
    IN Return(AddResult(t1, name, "failed", details), "false")

\* add_result(repo.name, "failed", details); return False
ReportFailed(t, name, details) ==
    Return(AddResult(t, name, "failed", details), "false")

\* A call that returns nothing the workflow reads: it succeeds, and the workflow
\* goes on at `next`, or it raises.
Invoke(t, name, op, arg, next) ==
    { IF o = "ok"
      THEN Goto(Call(t, op, arg, "ok"), next)
      ELSE Raise(Call(t, op, arg, o), name, o, op) : o \in Outcomes(op) }

\* The statements before the try block: the assert, Repository(url, path),
\* print_repo_start.  What they raise no handler of the workflow catches.
BeginStep(c, name, t) ==
    { IF o = "ok" THEN Goto(t, "clone") ELSE Goto(t, "raised") : o \in Outcomes("begin") }

\* A clone that does not look at dry_run.
CloneStepIgnoresDryRun(c, name, t) ==
    Invoke(t, name, "clone", "", "setup_review")

CloneStep(c, name, t) ==
    IF c.dry_run
    THEN {Goto(Narrate(t, "clone repository", ""), "setup_review")}
    ELSE Invoke(t, name, "clone", "", "setup_review")

\* git-review set up only when review is enabled.
SetupReviewStepOnlyForReview(c, name, t) ==
    IF ~c.dry_run /\ c.review
    THEN Invoke(t, name, "setup_review", "", "branch")
    ELSE {Goto(t, "branch")}

SetupReviewStep(c, name, t) ==
    IF ~c.dry_run
    THEN Invoke(t, name, "setup_review", "", "branch")
    ELSE {Goto(t, "branch")}

\* if repo.branch_exists(branch): checkout_branch / elif create_branch / else raise
SwitchBranch(c, name, t) ==
    UNION { LET t1 == Call(t, "branch_exists", c.branch, x) IN
            CASE x = "true" -> Invoke(t1, name, "checkout_branch", c.branch, "pre")
              [] x = "false" ->
                    IF c.create_branch
                    THEN Invoke(t1, name, "create_branch", c.branch, "pre")
                    ELSE {HandleRepositoryError(t1, name, <<"Branch does not exist", c.branch>>)}
              [] OTHER -> {Raise(t1, name, x, "branch_exists")}
          : x \in Answers("branch_exists", "true", "false") }
\* The clean check made but not acted on: the branch is switched whatever it
\* answered.
CheckCleanSwitchesAnyway(c, name, t) ==
    UNION { LET t1 == Call(t, "has_uncommitted_changes", "", u) IN
            IF u \in {"true", "false"}
            THEN SwitchBranch(c, name, t1)
            ELSE {Raise(t1, name, u, "has_uncommitted_changes")}
          : u \in Answers("has_uncommitted_changes", "false", "true") }

\* if repo.has_uncommitted_changes(): raise RepositoryError(...)
CheckClean(c, name, t) ==
    UNION { LET t1 == Call(t, "has_uncommitted_changes", "", u) IN
            CASE u = "true" ->
                    {HandleRepositoryError(t1, name, <<"Repository has uncommitted changes", "">>)}
              [] u = "false" -> SwitchBranch(c, name, t1)
              [] OTHER -> {Raise(t1, name, u, "has_uncommitted_changes")}
          : u \in Answers("has_uncommitted_changes", "false", "true") }

\* Handle branch switching.  The get_current_branch call is recorded with the
\* HEAD the clone was on as its arg.
BranchStep(c, name, t) ==
    IF c.branch = NoBranch
    THEN {Goto(t, "pre")}
    ELSE IF c.dry_run
    THEN {Goto(Narrate(t, "switch to branch", c.branch), "pre")}
    ELSE UNION { LET b == CurrentBranchResult(GetCurrentBranch(head, end))
                     t1 == Call(t, "get_current_branch", head, b)
                 IN IF b \in {"RepositoryError", "Exception"}
                    THEN {Raise(t1, name, b, "get_current_branch")}
                    ELSE CheckClean(c, name, [t1 EXCEPT !.original_branch = b])
               : head \in CloneHeads, end \in CurrentBranchEndsHere }
\* A pre-command loop that stops at the first failure whatever
\* continue_on_error says.
PreCommandStepStopsAlways(c, name, t) ==
    IF t.k > Len(c.pre_commands)
    THEN {Goto([t EXCEPT !.k = 1], "patch")}
    ELSE LET cmd == c.pre_commands[t.k] IN
         IF c.dry_run
         THEN {[Narrate(t, "run pre-command", cmd) EXCEPT !.k = @ + 1]}
         ELSE { LET t1 == Call(t, "run_command", cmd, s) IN
                IF s # "ok"
                THEN ReportFailed(t1, name, <<"Pre-command failed", cmd>>)
                ELSE [t1 EXCEPT !.k = @ + 1]
              : s \in CmdOutcomes("pre_command") }

\* One turn of `for cmd in self.config.pre_commands`.
PreCommandStep(c, name, t) ==
    IF t.k > Len(c.pre_commands)
    THEN {Goto([t EXCEPT !.k = 1], "patch")}
    ELSE LET cmd == c.pre_commands[t.k] IN
         IF c.dry_run
         THEN {[Narrate(t, "run pre-command", cmd) EXCEPT !.k = @ + 1]}
         ELSE { LET t1 == Call(t, "run_command", cmd, s) IN
                IF s # "ok" /\ ~c.continue_on_error
                THEN ReportFailed(t1, name, <<"Pre-command failed", cmd>>)
                ELSE [t1 EXCEPT !.k = @ + 1]
              : s \in CmdOutcomes("pre_command") }
\* A patch step that treats the script like a pre-command: with
\* continue_on_error its failure is passed over.
PatchStepHonoursContinue(c, name, t) ==
    IF c.dry_run
    THEN {Goto(Narrate(t, "execute patch script", "patch"), "detect")}
    ELSE { LET t1 == Call(t, "run_command", "patch", s) IN
           IF s # "ok" /\ ~c.continue_on_error
           THEN ReportFailed(t1, name, <<"Patch script failed", "">>)
           ELSE Goto(t1, "detect")
         : s \in CmdOutcomes("patch") }

PatchStep(c, name, t) ==
    IF c.dry_run
    THEN {Goto(Narrate(t, "execute patch script", "patch"), "detect")}
    ELSE { LET t1 == Call(t, "run_command", "patch", s) IN
           IF s # "ok"
           THEN ReportFailed(t1, name, <<"Patch script failed", "">>)
           ELSE Goto(t1, "detect")
         : s \in CmdOutcomes("patch") }

\* Change detection without the early return: the workflow goes on to the tests
\* whatever has_changes() answered.
DetectStepNoSkip(c, name, t) ==
    IF ~c.dry_run
    THEN { LET t1 == Call(t, "has_changes", "", h) IN
           IF h \in {"true", "false"}
           THEN Goto(t1, "tests")
           ELSE Raise(t1, name, h, "has_changes")
         : h \in Answers("has_changes", "true", "false") }
    ELSE {Goto(t, "tests")}
\* A no-changes exit that first returns to the original branch.
DetectStepSkipRestores(c, name, t) ==
    IF ~c.dry_run
    THEN { LET t1 == Call(t, "has_changes", "", h) IN
           CASE h = "false" ->
                    LET t2 == IF c.branch # NoBranch /\ t.original_branch \notin {"None", ""}
                                 /\ ~c.stay_on_branch
                              THEN Call(t1, "checkout_branch", t.original_branch, "ok")
                              ELSE t1
                    IN Return(AddResult(t2, name, "skipped", <<"No changes", "">>), "true")
             [] h = "true" -> Goto(t1, "tests")
             [] OTHER -> Raise(t1, name, h, "has_changes")
         : h \in Answers("has_changes", "true", "false") }
    ELSE {Goto(t, "tests")}

\* Check for changes
DetectStep(c, name, t) ==
    IF ~c.dry_run
    THEN { LET t1 == Call(t, "has_changes", "", h) IN
           CASE h = "false" -> Return(AddResult(t1, name, "skipped", <<"No changes", "">>), "true")
             [] h = "true" -> Goto(t1, "tests")
             [] OTHER -> Raise(t1, name, h, "has_changes")
         : h \in Answers("has_changes", "true", "false") }
    ELSE {Goto(t, "tests")}

\* A failed test command never blocks.
TestsFailedNeverBlocks(c, name, t) ==
    Goto(t, "commit")

\* What a failed test command leads to.
TestsFailed(c, name, t) ==
    IF c.tests_blocking
    THEN ReportFailed(t, name, <<"Tests failed (blocking)", "">>)
    ELSE Goto(t, "commit")

TestsStep(c, name, t) ==
    IF c.run_tests /\ c.dry_run
    THEN {Goto(Narrate(t, "run tests", "test"), "commit")}
    ELSE IF c.run_tests
    THEN { LET t1 == Call(t, "run_command", "test", s) IN
           IF s = "ok" THEN Goto(t1, "commit") ELSE TestsFailed(c, name, t1)
         : s \in CmdOutcomes("test") }
    ELSE {Goto(t, "commit")}
\* A commit step that does not look at the commit switch.
CommitStepUnconditional(c, name, t) ==
    IF c.dry_run
    THEN {Goto(Narrate(t, "commit changes", ""), "review")}
    ELSE UNION { IF t1.pc = "done"
                 THEN {t1}
                 ELSE Invoke([t1 EXCEPT !.commit_msg = RenderCommitMessage(c.commit_msg, name)],
                             name, "commit", "", "review")
               : t1 \in Invoke(t, name, "stage_all", "", "commit") }

\* The commit made before the changes are staged.
CommitStepCommitFirst(c, name, t) ==
    IF c.commit /\ c.dry_run
    THEN {Goto(Narrate(t, "commit changes", ""), "review")}
    ELSE IF c.commit
    THEN UNION { IF t1.pc = "done"
                 THEN {t1}
                 ELSE Invoke(t1, name, "stage_all", "", "review")
               : t1 \in Invoke([t EXCEPT !.commit_msg = RenderCommitMessage(c.commit_msg, name)],
                               name, "commit", "", "commit") }
    ELSE {Goto(t, "review")}

\* repo.stage_all(); commit_msg = self._render_commit_message(repo.name);
\* repo.commit(commit_msg)
CommitStep(c, name, t) ==
    IF c.commit /\ c.dry_run
    THEN {Goto(Narrate(t, "commit changes", ""), "review")}
    ELSE IF c.commit
    THEN UNION { IF t1.pc = "done"
                 THEN {t1}
                 ELSE Invoke([t1 EXCEPT !.commit_msg = RenderCommitMessage(c.commit_msg, name)],
                             name, "commit", "", "review")
               : t1 \in Invoke(t, name, "stage_all", "", "commit") }
    ELSE {Goto(t, "review")}
\* A review step that looks at the review switch alone.
ReviewStepWithoutCommit(c, name, t) ==
    IF c.review /\ c.dry_run
    THEN {Goto(Narrate(t, "submit for review", ""), "post")}
    ELSE IF c.review
    THEN Invoke(t, name, "submit_review", IF c.topic # "" THEN c.topic ELSE "None", "post")
    ELSE {Goto(t, "post")}

\* Submit for review: nested in `if self.config.commit`.
ReviewStep(c, name, t) ==
    IF c.commit /\ c.review /\ c.dry_run
    THEN {Goto(Narrate(t, "submit for review", ""), "post")}
    ELSE IF c.commit /\ c.review
    THEN Invoke(t, name, "submit_review", IF c.topic # "" THEN c.topic ELSE "None", "post")
    ELSE {Goto(t, "post")}
\* A post-command loop that passes over every failure, whatever
\* continue_on_error says.
PostCommandStepNeverStops(c, name, t) ==
    IF t.k > Len(c.post_commands)
    THEN {Goto([t EXCEPT !.k = 1], "restore")}
    ELSE LET cmd == c.post_commands[t.k] IN
         IF c.dry_run
         THEN {[Narrate(t, "run post-command", cmd) EXCEPT !.k = @ + 1]}
         ELSE { [Call(t, "run_command", cmd, s) EXCEPT !.k = @ + 1]
              : s \in CmdOutcomes("post_command") }

PostCommandStep(c, name, t) ==
    IF t.k > Len(c.post_commands)
    THEN {Goto([t EXCEPT !.k = 1], "restore")}
    ELSE LET cmd == c.post_commands[t.k] IN
         IF c.dry_run
         THEN {[Narrate(t, "run post-command", cmd) EXCEPT !.k = @ + 1]}
         ELSE { LET t1 == Call(t, "run_command", cmd, s) IN
                IF s # "ok" /\ ~c.continue_on_error
                THEN ReportFailed(t1, name, <<"Post-command failed", cmd>>)
                ELSE [t1 EXCEPT !.k = @ + 1]
              : s \in CmdOutcomes("post_command") }

\* add_result(repo.name, "succeeded"); return True
Succeed(c, name, t) ==
    Return(AddResult(t, name, "succeeded", <<"", "">>), "true")
\* A restoration that does not look at stay_on_branch.
RestoreStepIgnoresStay(c, name, t) ==
    IF c.branch # NoBranch /\ t.original_branch \notin {"None", ""} /\ c.dry_run
    THEN {Succeed(c, name, Narrate(t, "return to branch", t.original_branch))}
    ELSE IF c.branch # NoBranch /\ t.original_branch \notin {"None", ""}
    THEN { IF t1.pc = "done" THEN t1 ELSE Succeed(c, name, t1)
         : t1 \in Invoke(t, name, "checkout_branch", t.original_branch, "restore") }
    ELSE {Succeed(c, name, t)}

\* Return to original branch if needed, then report success.
RestoreStep(c, name, t) ==
    IF c.branch # NoBranch /\ t.original_branch \notin {"None", ""}
       /\ ~c.stay_on_branch /\ c.dry_run
    THEN {Succeed(c, name, Narrate(t, "return to branch", t.original_branch))}
    ELSE IF c.branch # NoBranch /\ t.original_branch \notin {"None", ""}
            /\ ~c.stay_on_branch
    THEN { IF t1.pc = "done" THEN t1 ELSE Succeed(c, name, t1)
         : t1 \in Invoke(t, name, "checkout_branch", t.original_branch, "restore") }
    ELSE {Succeed(c, name, t)}

\* The states one stage of the workflow may leave the task in.
StepOutcomes(c, name, t) ==
    CASE t.pc = "begin" -> BeginStep(c, name, t)
      [] t.pc = "clone" -> CloneStep(c, name, t)
      [] t.pc = "setup_review" -> SetupReviewStep(c, name, t)
      [] t.pc = "branch" -> BranchStep(c, name, t)
      [] t.pc = "pre" -> PreCommandStep(c, name, t)
      [] t.pc = "patch" -> PatchStep(c, name, t)
      [] t.pc = "detect" -> DetectStep(c, name, t)
      [] t.pc = "tests" -> TestsStep(c, name, t)
      [] t.pc = "commit" -> CommitStep(c, name, t)
      [] t.pc = "review" -> ReviewStep(c, name, t)
      [] t.pc = "post" -> PostCommandStep(c, name, t)
      [] t.pc = "restore" -> RestoreStep(c, name, t)
      [] OTHER -> {}

\* The states the whole workflow may end in, from t on.
RECURSIVE RunToEnd(_, _, _)
RunToEnd(c, name, t) ==
    IF t.pc \in Terminal
    THEN {t}
    ELSE UNION {RunToEnd(c, name, t1) : t1 \in StepOutcomes(c, name, t)}

---------------------------------------------------------------------------
(* PatchExecutor.execute and the worker threads of its pool.               *)

Running == {i \in Repos : fut[i] = "running"}

\* A pool that starts a thread for every task.
WorkerAlwaysAvailable == TRUE

\* A worker thread of the pool is idle.
WorkerAvailable == Cardinality(Running) < MaxWorkers

\* Records put at the head of the collection.
RecordResultsAtHead(rs, out) == out \o rs

\* An append that starts from a stale copy of the list: what another
\* task had recorded is overwritten.
RecordResultsOverwrites(rs, out) == IF out = <<>> THEN rs ELSE out

\* Reporter.add_result: self.results.append(...)
RecordResults(rs, out) == rs \o out

\* A cancel() that does nothing.
CancelFutureNoOp(state) == state

\* Future.cancel(): a future no worker has taken yet is cancelled, any other is
\* left as it is.
CancelFuture(state) == IF state = "pending" THEN "cancelled" ELSE state

\* all_success = success: the last task seen decides.
NextAllSuccessLastWins(all, t) ==
    t.pc # "raised" /\ t.ret = "true"

\* all_success after the loop body has seen the finished task t.
NextAllSuccess(all, t) ==
    IF t.pc = "raised"
    THEN FALSE                      \* except Exception: all_success = False
    ELSE IF t.ret # "true"
         THEN FALSE                 \* if not success: all_success = False
         ELSE all

\* A reported failure stops the run whether or not exit_on_error is set.
AfterObserveAlwaysExits(t, eoe, seen) ==
    IF t.pc = "raised"
    THEN IF eoe THEN "shutdown" ELSE IF seen = Repos THEN "shutdown" ELSE "collect"
    ELSE IF t.ret # "true"
         THEN "cancel"
         ELSE IF seen = Repos THEN "shutdown" ELSE "collect"

\* Where execute() goes after the loop body has seen the finished task t:
\* into the cancel loop, out of the for loop (break), or to the next future.
AfterObserve(t, eoe, seen) ==
    IF t.pc = "raised"
    THEN IF eoe THEN "shutdown" ELSE IF seen = Repos THEN "shutdown" ELSE "collect"
    ELSE IF t.ret # "true" /\ eoe
         THEN "cancel"
         ELSE IF seen = Repos THEN "shutdown" ELSE "collect"

\* Workspace.__init__: no path yet.
NoWorkspace == [path |-> "None", dir |-> FALSE, cleanups |-> 0, creates |-> 0]

\* Workspace.create(): a fresh directory under the base directory; creates
\* counts the calls.
WorkspaceCreate(w) == [w EXCEPT !.path = "ws", !.dir = TRUE, !.creates = @ + 1]

\* A preflight without the is_file() check.
PreflightNoFileCheck ==
    /\ orch = "preflight"
    /\ workspace' = WorkspaceCreate(workspace)
    /\ CASE script.kind = "missing" ->
                /\ orch' = "returned" /\ retval' = FALSE /\ UNCHANGED <<script, error>>
         [] ~script.locked ->
                /\ orch' = "submit" /\ script' = [script EXCEPT !.exec = TRUE]
                /\ UNCHANGED <<retval, error>>
         [] OTHER ->
                /\ orch' = "raised" /\ error' = "PermissionError"
                /\ UNCHANGED <<script, retval>>
    /\ UNCHANGED <<git, config, exit_on_error, hazards, all_success, cancel_idx,
                   observed, fut, task, results, exit_code>>

\* Create workspace, validate the patch script, make it executable.
Preflight ==
    /\ orch = "preflight"
    /\ workspace' = WorkspaceCreate(workspace)
    /\ CASE script.kind = "missing" ->      \* if not script_path.exists(): return False
                /\ orch' = "returned" /\ retval' = FALSE /\ UNCHANGED <<script, error>>
         [] script.kind = "dir" ->          \* if not script_path.is_file(): return False
                /\ orch' = "returned" /\ retval' = FALSE /\ UNCHANGED <<script, error>>
         [] script.kind = "file" /\ ~script.locked -> \* script_path.chmod(0o755)
                /\ orch' = "submit" /\ script' = [script EXCEPT !.exec = TRUE]
                /\ UNCHANGED <<retval, error>>
         [] OTHER ->                        \* chmod raises PermissionError
                /\ orch' = "raised" /\ error' = "PermissionError"
                /\ UNCHANGED <<script, retval>>
    /\ UNCHANGED <<git, config, exit_on_error, hazards, all_success, cancel_idx,
                   observed, fut, task, results, exit_code>>

\* all_success = True; one executor.submit(self._process_repository, ...) per url.
Submit ==
    /\ orch = "submit"
    /\ all_success' = TRUE
    /\ fut' = [i \in Repos |-> "pending"]
    /\ orch' = "collect"
    /\ UNCHANGED <<git, config, exit_on_error, script, hazards, cancel_idx,
                   observed, task, results, retval, workspace, error, exit_code>>
\* A pool whose workers take no new item once the caller has left the loop.
StartOnlyWhileCollecting(i) ==
    /\ orch = "collect"
    /\ fut[i] = "pending"
    /\ \A j \in Repos : j < i => fut[j] # "pending"
    /\ WorkerAvailable
    /\ fut' = [fut EXCEPT ![i] = "running"]
    /\ task' = [task EXCEPT ![i] = Goto(@, "begin")]
    /\ UNCHANGED <<git, config, exit_on_error, script, hazards, orch, all_success,
                   cancel_idx, observed, results, retval, workspace, error, exit_code>>

\* A worker takes the next work item of the queue (first in, first out; a
\* cancelled item is dropped) and calls _process_repository.
Start(i) ==
    /\ orch \in {"collect", "cancel", "shutdown", "unwinding"}
    /\ fut[i] = "pending"
    /\ \A j \in Repos : j < i => fut[j] # "pending"
    /\ WorkerAvailable
    /\ fut' = [fut EXCEPT ![i] = "running"]
    /\ task' = [task EXCEPT ![i] = Goto(@, "begin")]
    /\ UNCHANGED <<git, config, exit_on_error, script, hazards, orch, all_success,
                   cancel_idx, observed, results, retval, workspace, error, exit_code>>

\* The task of repository i goes from its state to one of `nexts`.
Advance(i, nexts) ==
    /\ fut[i] = "running"
    /\ \E t1 \in nexts :
          /\ task' = [task EXCEPT ![i] = [t1 EXCEPT !.out = <<>>]]
          /\ results' = RecordResults(results, t1.out)
          /\ fut' = [fut EXCEPT ![i] = IF t1.pc \in Terminal THEN "finished" ELSE "running"]
    /\ UNCHANGED <<git, config, exit_on_error, script, hazards, orch, all_success,
                   cancel_idx, observed, retval, workspace, error, exit_code>>

\* One stage of _process_repository.
WorkflowStep(i) == Advance(i, StepOutcomes(config, RepoName(i), task[i]))

\* _process_repository from its first statement to its return.
RunWorkflow(i) == Advance(i, RunToEnd(config, RepoName(i), task[i]))

\* One turn of `for future in concurrent.futures.as_completed(futures)`.
Observe(i) ==
    /\ orch = "collect"
    /\ i \notin observed
    /\ fut[i] = "finished"
    /\ observed' = observed \cup {i}
    /\ all_success' = NextAllSuccess(all_success, task[i])
    /\ orch' = AfterObserve(task[i], exit_on_error, observed')
    /\ cancel_idx' = 1
    /\ UNCHANGED <<git, config, exit_on_error, script, hazards, fut, task, results, retval,
                   workspace, error, exit_code>>

\* One turn of `for f in futures: f.cancel()`, then break.
CancelNext ==
    /\ orch = "cancel"
    /\ fut' = [fut EXCEPT ![cancel_idx] = CancelFuture(@)]
    /\ cancel_idx' = cancel_idx + 1
    /\ orch' = IF cancel_idx = Len(config.projects) THEN "shutdown" ELSE "cancel"
    /\ UNCHANGED <<git, config, exit_on_error, script, hazards, all_success,
                   observed, task, results, retval, workspace, error, exit_code>>
\* A return that does not wait for the workers.
FinishWithoutJoin ==
    /\ orch = "shutdown"
    /\ retval' = all_success
    /\ orch' = "returned"
    /\ UNCHANGED <<git, config, exit_on_error, script, hazards, all_success,
                   cancel_idx, observed, fut, task, results, workspace, error, exit_code>>

\* Leaving the `with` block joins the workers (shutdown(wait=True)): every item
\* still queued and not cancelled is run first.  Then print_summary and return.
Finish ==
    /\ orch = "shutdown"
    /\ \A i \in Repos : fut[i] \in {"finished", "cancelled"}
    /\ retval' = all_success
    /\ orch' = "returned"
    /\ UNCHANGED <<git, config, exit_on_error, script, hazards, all_success,
                   cancel_idx, observed, fut, task, results, workspace, error, exit_code>>

---------------------------------------------------------------------------
(* The create command of the command line, and Workspace.cleanup.          *)

\* The ways ConfigParser.parse may end.
ParseOutcomes ==
    {"ok"} \cup {k \in {"FileNotFoundError", "ValueError", "Exception"} :
                    <<"parse", k>> \in hazards}

\* An interruption handled like any other error.
ExitCodeInterruptAsError(err, success) ==
    IF err = "none" /\ success THEN 0 ELSE 1

\* sys.exit(0 if success else 1) and the except clauses of create.
ExitCode(err, success) ==
    CASE err = "none" -> IF success THEN 0 ELSE 1
      [] err = "FileNotFoundError" -> 1
      [] err = "ValueError" -> 1
      [] err = "KeyboardInterrupt" -> 130
      [] OTHER -> 1

\* create: parse the configuration, build the reporter and the executor.
Create ==
    /\ orch = "cli"
    /\ \E o \in ParseOutcomes :
          IF o = "ok"
          THEN orch' = "preflight" /\ UNCHANGED error
          ELSE orch' = "raised" /\ error' = o
    /\ UNCHANGED <<git, config, exit_on_error, script, hazards, all_success, cancel_idx,
                   observed, fut, task, results, retval, workspace, exit_code>>

\* The user interrupts the run: KeyboardInterrupt is raised in the main thread.
\* Inside the `with` block it leaves through the pool's shutdown.
Interrupt ==
    /\ <<"main", "KeyboardInterrupt">> \in hazards
    /\ orch \in {"cli", "preflight", "submit", "collect", "cancel", "shutdown"}
    /\ error' = "KeyboardInterrupt"
    /\ orch' = IF orch \in {"collect", "cancel", "shutdown"} THEN "unwinding" ELSE "raised"
    /\ UNCHANGED <<git, config, exit_on_error, script, hazards, all_success, cancel_idx,
                   observed, fut, task, results, retval, workspace, exit_code>>

\* The exception leaves the `with` block once the pool has joined its workers.
Abandon ==
    /\ orch = "unwinding"
    /\ \A i \in Repos : fut[i] \in {"finished", "cancelled"}
    /\ orch' = "raised"
    /\ UNCHANGED <<git, config, exit_on_error, script, hazards, all_success, cancel_idx,
                   observed, fut, task, results, retval, workspace, error, exit_code>>

\* sys.exit(...) at the end of create or in one of its except clauses.
Exit ==
    /\ orch \in {"returned", "raised"}
    /\ exit_code' = ExitCode(error, retval)
    /\ orch' = "exited"
    /\ UNCHANGED <<git, config, exit_on_error, script, hazards, all_success, cancel_idx,
                   observed, fut, task, results, retval, workspace, error>>

\* Workspace.cleanup()
WorkspaceCleanup(w) ==
    IF w.path # "None" /\ w.dir
    THEN [w EXCEPT !.dir = FALSE, !.path = "None"]   \* shutil.rmtree; self.path = None
    ELSE w
\* A caller that cleans up while execute() is collecting results.
CleanupWhileRunning ==
    /\ orch \in {"preflight", "collect", "exited"}
    /\ workspace.cleanups < MaxCleanups
    /\ workspace' = [WorkspaceCleanup(workspace) EXCEPT !.cleanups = @ + 1]
    /\ UNCHANGED <<git, config, exit_on_error, script, hazards, orch, all_success, cancel_idx,
                   observed, fut, task, results, retval, error, exit_code>>

\* A caller cleans the workspace up, before execute() or after the command is
\* done; cleanups counts the calls.
Cleanup ==
    /\ orch \in {"preflight", "exited"}
    /\ workspace.cleanups < MaxCleanups
    /\ workspace' = [WorkspaceCleanup(workspace) EXCEPT !.cleanups = @ + 1]
    /\ UNCHANGED <<git, config, exit_on_error, script, hazards, orch, all_success, cancel_idx,
                   observed, fut, task, results, retval, error, exit_code>>

\* Something else removes the workspace directory.
DeleteExternally ==
    /\ orch = "exited"
    /\ workspace.dir
    /\ workspace' = [workspace EXCEPT !.dir = FALSE]
    /\ UNCHANGED <<git, config, exit_on_error, script, hazards, orch, all_success, cancel_idx,
                   observed, fut, task, results, retval, error, exit_code>>

---------------------------------------------------------------------------
---------------------------------------------------------------------------
(* One clone and the Repository methods that read it.  The clone has its   *)
(* local branches (refs/heads), the remote-tracking branches of origin     *)
(* (refs/remotes/origin), and HEAD: a local branch, or "" when detached;    *)
(* method, arg, env and returned are the last method called on it, its     *)
(* argument, what the environment did to its subprocesses, and its result. *)

Branches == {"main", "feature"}

\* The names a caller may ask about: the branches, and one that is nowhere.
BranchNames == Branches \cup {"gone"}

GitStates ==
    { g \in [head : Branches \cup {""}, local : SUBSET Branches, remote : SUBSET Branches,
             method : {"none"}, arg : {""}, env : {"none"}, returned : {MethodResult("none", <<>>, <<>>)}]
        : g.head \in g.local \cup {""} }

\* No clone is looked at.
NoGit ==
    [head |-> "", local |-> {}, remote |-> {}, method |-> "none", arg |-> "",
     env |-> "none", returned |-> MethodResult("none", <<>>, <<>>)]

\* Which of a method's subprocesses cannot be launched.
Breakages == {"none", "first", "second"}

\* git show-ref --verify <ref>
ShowRef(ref) == <<"show-ref", ref[1], ref[2]>>

\* A branch_exists that asks about both refs before it answers.
BranchExistsAsksBoth(g, branch_name, broken) ==
    LET heads == ShowRef(<<"refs/heads", branch_name>>)
        remotes == ShowRef(<<"refs/remotes/origin", branch_name>>)
    IN IF broken = "first"
       THEN MethodResult("RepositoryError", <<>>, <<heads>>)
       ELSE IF broken = "second"
       THEN MethodResult("RepositoryError", <<>>, <<heads, remotes>>)
       ELSE MethodResult("none",
                     IF branch_name \in g.local \/ branch_name \in g.remote
                     THEN "true" ELSE "false",
                     <<heads, remotes>>)

\* Repository.branch_exists.  `broken` is the subprocess that cannot be
\* launched: the first, the second, or none.
BranchExists(g, branch_name, broken) ==
    LET heads == ShowRef(<<"refs/heads", branch_name>>)
        remotes == ShowRef(<<"refs/remotes/origin", branch_name>>)
    IN IF broken = "first"
       THEN MethodResult("RepositoryError", <<>>, <<heads>>)
       ELSE IF branch_name \in g.local
       THEN MethodResult("none", "true", <<heads>>)
       ELSE IF broken = "second"
       THEN MethodResult("RepositoryError", <<>>, <<heads, remotes>>)
       ELSE MethodResult("none", IF branch_name \in g.remote THEN "true" ELSE "false",
                     <<heads, remotes>>)
\* What a method that moves HEAD leaves behind: its result and the clone's
\* HEAD and local branches.
Moved(result, head, local) == [returned |-> result, head |-> head, local |-> local]

\* How a checkout may go wrong: a subprocess cannot be launched, or git
\* refuses the checkout although the branch is there.
CheckoutEnds == Breakages \cup {"refused"}

\* A checkout_branch that always runs `git checkout <branch>`.
CheckoutBranchAlwaysDirect(g, branch_name, end) ==
    LET heads == ShowRef(<<"refs/heads", branch_name>>)
        direct == <<"checkout", branch_name>>
    IN IF end = "first"
       THEN Moved(MethodResult("RepositoryError", <<>>, <<heads>>), g.head, g.local)
       ELSE IF end = "second"
       THEN Moved(MethodResult("OSError", <<>>, <<heads, direct>>), g.head, g.local)
       ELSE IF end = "refused" \/ branch_name \notin g.local
       THEN Moved(MethodResult("RepositoryError", <<>>, <<heads, direct>>), g.head, g.local)
       ELSE Moved(MethodResult("none", "true", <<heads, direct>>), branch_name, g.local)

\* Repository.checkout_branch: branch_exists_locally, then `git checkout
\* <branch>` or `git checkout -b <branch> origin/<branch>`.  Only
\* CalledProcessError is turned into RepositoryError.
CheckoutBranch(g, branch_name, end) ==
    LET heads == ShowRef(<<"refs/heads", branch_name>>)
        direct == <<"checkout", branch_name>>
        tracking == <<"checkout", "-b", branch_name, "origin/" \o branch_name>>
        command == IF branch_name \in g.local THEN direct ELSE tracking
    IN IF end = "first"
       THEN Moved(MethodResult("RepositoryError", <<>>, <<heads>>), g.head, g.local)
       ELSE IF end = "second"
       THEN Moved(MethodResult("OSError", <<>>, <<heads, command>>), g.head, g.local)
       ELSE IF end = "refused"
               \/ (branch_name \notin g.local /\ branch_name \notin g.remote)
       THEN Moved(MethodResult("RepositoryError", <<>>, <<heads, command>>), g.head, g.local)
       ELSE Moved(MethodResult("none", "true", <<heads, command>>),
                  branch_name, g.local \cup {branch_name})

\* A caller runs a shell command in the clone.
RunCommandCall ==
    /\ orch = "adapter"
    /\ \E command \in {"pre_command", "patch", "test", "post_command"} :
          \E end \in CommandEnds(command) :
              git' = [git EXCEPT !.method = "run_command", !.arg = command, !.env = end,
                                 !.returned = RunCommand(command, end)]
    /\ UNCHANGED <<config, exit_on_error, script, hazards, orch, all_success, cancel_idx,
                   observed, fut, task, results, retval, workspace, error, exit_code>>

\* A caller asks whether a branch exists.
BranchExistsCall ==
    /\ orch = "adapter"
    /\ \E branch_name \in BranchNames, broken \in Breakages :
          git' = [git EXCEPT !.method = "branch_exists", !.arg = branch_name, !.env = broken,
                             !.returned = BranchExists(git, branch_name, broken)]
    /\ UNCHANGED <<config, exit_on_error, script, hazards, orch, all_success, cancel_idx,
                   observed, fut, task, results, retval, workspace, error, exit_code>>
\* A caller switches the clone to a branch.
CheckoutBranchCall ==
    /\ orch = "adapter"
    /\ \E branch_name \in BranchNames, end \in CheckoutEnds :
          LET m == CheckoutBranch(git, branch_name, end) IN
          git' = [git EXCEPT !.method = "checkout_branch", !.arg = branch_name, !.env = end,
                             !.returned = m.returned, !.head = m.head, !.local = m.local]
    /\ UNCHANGED <<config, exit_on_error, script, hazards, orch, all_success, cancel_idx,
                   observed, fut, task, results, retval, workspace, error, exit_code>>

InitFrom(start, c, hz) ==
    /\ config = c
    /\ hazards = hz
    /\ exit_on_error \in BOOLEAN
    /\ script \in ScriptStates
    /\ orch = start
    /\ all_success = TRUE
    /\ cancel_idx = 1
    /\ observed = {}
    /\ fut = [i \in 1..Len(c.projects) |-> "unsubmitted"]
    /\ task = [i \in 1..Len(c.projects) |-> IdleTask]
    /\ results = <<>>
    /\ retval = FALSE
    /\ workspace = NoWorkspace
    /\ error = "none"
    /\ exit_code = -1
    /\ git \in IF start = "adapter" THEN GitStates ELSE {NoGit}

\* PatchExecutor(config, reporter, exit_on_error), about to execute().
InitWith(c, hz) == InitFrom("preflight", c, hz)

\* A regular file with its execute bit, which the process may chmod.
ReadyScript == [kind |-> "file", exec |-> TRUE, locked |-> FALSE]

\* A switch that no statement reads under configuration c is left off:
\* tests_blocking without run_tests, create_branch and stay_on_branch without
\* a branch, the topic without commit and review, continue_on_error without
\* pre- or post-commands.
EverySwitchRead(c) ==
    /\ c.tests_blocking => c.run_tests
    /\ (c.create_branch \/ c.stay_on_branch) => c.branch # NoBranch
    /\ c.topic # "" => (c.commit /\ c.review)
    /\ c.continue_on_error => (c.pre_commands # <<>> \/ c.post_commands # <<>>)

\* One repository, every configuration, every failure; the script is in place
\* and exit_on_error is off (with one repository there is nothing to cancel).
Init ==
    /\ \E c \in ConfigSpace(<<Locator(1)>>) : EverySwitchRead(c) /\ InitWith(c, AllHazards)
    /\ ~exit_on_error
    /\ script = ReadyScript

Next ==
    \/ Preflight
    \/ Submit
    \/ \E i \in Repos : Start(i)
    \/ \E i \in Repos : WorkflowStep(i)
    \/ \E i \in Repos : Observe(i)
    \/ Finish

Spec == Init /\ [][Next]_vars

\* PoolRepos repositories under the plain configuration.
InitPool == InitWith(PlainConfig([i \in 1..PoolRepos |-> Locator(i)]), PoolHazards)

NextPool ==
    \/ Preflight
    \/ Submit
    \/ \E i \in Repos : Start(i)
    \/ \E i \in Repos : RunWorkflow(i)
    \/ \E i \in Repos : Observe(i)
    \/ CancelNext
    \/ Finish

SpecPool == InitPool /\ [][NextPool]_vars

\* NumRepos repositories, more than MaxWorkers.
InitWorkers == InitWith(PlainConfig([i \in 1..NumRepos |-> Locator(i)]), WorkersHazards)

\* No task reports a failure here, so execute() never enters its cancel loop.
NextWorkers ==
    \/ Preflight
    \/ Submit
    \/ \E i \in Repos : Start(i)
    \/ \E i \in Repos : RunWorkflow(i)
    \/ \E i \in Repos : Observe(i)
    \/ Finish

SpecWorkers == InitWorkers /\ [][NextWorkers]_vars

\* The create command over two repositories.
CliHazards ==
    {<<"clone", "RepositoryError">>, <<"main", "KeyboardInterrupt">>}
    \cup ({"parse"} \X {"FileNotFoundError", "ValueError", "Exception"})

InitCli == InitFrom("cli", PlainConfig(<<Locator(1), Locator(2)>>), CliHazards)

NextCli ==
    \/ Create
    \/ Preflight
    \/ Submit
    \/ \E i \in Repos : Start(i)
    \/ \E i \in Repos : RunWorkflow(i)
    \/ \E i \in Repos : Observe(i)
    \/ CancelNext
    \/ Finish
    \/ Interrupt
    \/ Abandon
    \/ Exit
    \/ Cleanup
    \/ DeleteExternally

SpecCli == InitCli /\ [][NextCli]_vars

\* Two different repositories named by locators of every form, committing with
\* templates of every make; the script is in place.
NamesHazards == {<<"clone", "RepositoryError">>}

DefaultLocators == <<BuildLocator(HttpsPrefix, "a", DotGit), BuildLocator(SshPrefix, "b", DotGit)>>

NamesConfig(projects, pieces) ==
    [PlainConfig(projects) EXCEPT !.commit = TRUE, !.commit_msg = JoinPieces(pieces)]

InitNames ==
    /\ \E l1, l2 \in LocatorParts, pieces \in Pieces :
          LET projects == <<BuildLocator(l1[1], l1[2], l1[3]), BuildLocator(l2[1], l2[2], l2[3])>> IN
          /\ <<OrgOf(l1[1]), l1[2]>> # <<OrgOf(l2[1]), l2[2]>>
          /\ projects = DefaultLocators \/ pieces = <<"text", "spaced">>
          /\ InitWith(NamesConfig(projects, pieces), NamesHazards)
    /\ ~exit_on_error
    /\ script = ReadyScript

NextNames ==
    \/ Preflight
    \/ Submit
    \/ \E i \in Repos : Start(i)
    \/ \E i \in Repos : RunWorkflow(i)
    \/ \E i \in Repos : Observe(i)
    \/ Finish

SpecNames == InitNames /\ [][NextNames]_vars

\* One clone in every state of its refs, and a caller of its methods; every
\* command may fail in every way.
CommandHazards == {"pre_command", "patch", "test", "post_command"} \X {"fail"}

InitGit ==
    /\ InitFrom("adapter", PlainConfig(<<Locator(1)>>), CommandHazards)
    /\ ~exit_on_error
    /\ script = ReadyScript

NextGit ==
    \/ RunCommandCall
    \/ BranchExistsCall
    \/ CheckoutBranchCall

SpecGit == InitGit /\ [][NextGit]_vars

---------------------------------------------------------------------------
(* Vocabulary of the properties.                                           *)

Returned == orch = "returned"

\* The preflight passed and the tasks were handed to the pool.
Submitted == \A i \in Repos : fut[i] # "unsubmitted"

NumProjects == Len(config.projects)

\* The tasks that ended by an exception escaping _process_repository.
Escaped == {i \in Repos : task[i].pc = "raised"}

\* The positions of the records of repository i in Reporter.results.
RecordsOf(i) == {k \in 1..Len(results) : results[k].repo = RepoName(i)}

RecordOf(i) == results[CHOOSE k \in RecordsOf(i) : TRUE]

\* The positions in task t's history of its calls of `op`.
CallsOf(t, op) == {k \in 1..Len(t.calls) : t.calls[k].op = op}

\* The positions in task t's history of run_command(arg) calls that ended as `result`.
Commands(t, arg, result) ==
    {k \in CallsOf(t, "run_command") : t.calls[k].arg = arg /\ t.calls[k].result = result}

\* What the task met on its way: its adapter calls and how each ended.
StepsOf(t) == SelectSeq(t.calls, LAMBDA call : call.op # "add_result")

---------------------------------------------------------------------------
\* C1 (as stated): with exit_on_error false, once execute() has returned the
\* result collection holds as many records as there are configured repositories.
C1_CountEqualsRepos ==
    (Returned /\ ~exit_on_error) => Len(results) = NumProjects

\* C1 (amended): with exit_on_error false, once execute() has returned: if the
\* preflight failed there is no record; otherwise every task has finished and
\* there is one record per repository whose task returned, that is, one per
\* repository unless a task ended by an exception it did not catch.
C1_CountEqualsReturnedTasks ==
    (Returned /\ ~exit_on_error) =>
        IF Submitted
        THEN /\ \A i \in Repos : fut[i] = "finished"
             /\ Len(results) = NumProjects - Cardinality(Escaped)
        ELSE Len(results) = 0

\* Every repository has its record, whatever its outcome: one failed, one skipped,
\* one succeeded.
C1_Witness ==
    /\ Returned /\ ~exit_on_error
    /\ Len(results) = NumProjects
    /\ {results[k].status : k \in 1..Len(results)} = {"failed", "skipped", "succeeded"}

\* C2: execute() returns true exactly when every repository's task returned
\* true, which a task does on the outcomes succeeded and skipped.
C2_TrueIffAllTasksSucceeded ==
    Returned =>
        (retval <=> (Submitted /\ \A i \in Repos : task[i].ret = "true"))

\* execute() returned true over a skipped and a succeeded repository.
C2_Witness ==
    /\ Returned /\ retval
    /\ \E i, j \in Repos :
          /\ RecordsOf(i) # {} /\ RecordOf(i).status = "skipped"
          /\ RecordsOf(j) # {} /\ RecordOf(j).status = "succeeded"

\* C3: with exit_on_error false, a failed repository makes execute() return
\* false and leaves the others alone: every task runs to its end, every task
\* that returned has exactly one record, and two tasks that met the same step
\* outcomes have the same outcome, whatever happened to the rest.
C3_FailureStaysLocal ==
    (Returned /\ ~exit_on_error /\ Submitted) =>
        /\ (\E i \in Repos : task[i].ret = "false") => ~retval
        /\ \A i \in Repos : fut[i] = "finished" /\ task[i].pc \in Terminal
        /\ \A i \in Repos : task[i].pc = "done" => Cardinality(RecordsOf(i)) = 1
        /\ \A i, j \in Repos :
              (task[i].pc = "done" /\ task[j].pc = "done"
                  /\ StepsOf(task[i]) = StepsOf(task[j]))
              => RecordOf(i).status = RecordOf(j).status

\* Three repositories, the clone of the first raises RepositoryError, the other
\* two complete with results of their own, and execute() returned false.
C3_Witness ==
    /\ Returned /\ ~exit_on_error /\ ~retval
    /\ NumProjects >= 3
    /\ task[1].pc = "done"
    /\ task[1].calls[1] = [op |-> "clone", arg |-> "", result |-> "RepositoryError"]
    /\ \A i \in Repos \ {1} :
          /\ task[i].ret = "true"
          /\ Cardinality(RecordsOf(i)) = 1

\* No task was started and nothing was recorded.
NothingStarted == results = <<>> /\ \A i \in Repos : fut[i] = "unsubmitted"

\* C4 (as stated): when the patch command path is missing, is not a regular
\* file or is not executable, execute() returns false without starting any task
\* and without recording a result.
C4_RejectsNonExecutable ==
    [][ (orch = "preflight" /\ ~(script.kind = "file" /\ script.exec))
            => (orch' = "returned" /\ ~retval' /\ NothingStarted') ]_vars

\* C4 (amended): when the path is missing or is not a regular file, execute()
\* returns false without starting any task and without recording a result.  A
\* regular file is never rejected, executable or not: execute() sets its mode
\* to 0755 and goes on to submit the tasks, and if the chmod is refused the
\* error leaves execute(), which then returns nothing.
C4_RejectsMissingOrNotFile ==
    [][ orch = "preflight" =>
            /\ script.kind # "file"
                  => (orch' = "returned" /\ ~retval' /\ NothingStarted')
            /\ script.kind = "file"
                  => /\ orch' # "returned"
                     /\ NothingStarted'
                     /\ ~script.locked => (orch' = "submit" /\ script'.exec)
                     /\ script.locked => orch' = "raised" ]_vars

\* execute() returned false on a path that is a directory, with no task started.
C4_Witness ==
    /\ Returned /\ ~retval
    /\ script.kind = "dir"
    /\ NothingStarted

\* execute() has seen a task return false with exit_on_error set: it is in its
\* cancel loop or past it.
StoppedOnFailure ==
    /\ exit_on_error
    /\ \/ orch = "cancel"
       \/ orch \in {"shutdown", "returned"} /\ cancel_idx > NumProjects

\* execute() has left its loop on an exception that escaped a task, with
\* exit_on_error set.
StoppedOnException ==
    /\ exit_on_error
    /\ orch \in {"shutdown", "returned"}
    /\ cancel_idx = 1
    /\ \E i \in observed : task[i].pc = "raised"

\* C5 (as stated): once execute() has seen a reported failure with
\* exit_on_error set, no task that has not started is started, running tasks
\* are not interrupted, and execute() returns false.
C5_NoStartAfterObservedFailure ==
    [][ StoppedOnFailure =>
            /\ \A i \in Repos : fut[i] = "pending" => fut'[i] # "running"
            /\ \A i \in Repos : fut[i] = "running" => fut'[i] \in {"running", "finished"}
            /\ orch' = "returned" => ~retval' ]_vars

\* C5 (amended): once execute() has seen a reported failure with exit_on_error
\* set, it cancels the futures one by one: a task whose future the cancel loop
\* has reached is never started afterwards (a task the loop has not reached yet
\* may still be taken by a free worker), running tasks are not interrupted and
\* have finished when execute() returns, and execute() returns false.
C5_NoStartAfterCancel ==
    [][ StoppedOnFailure =>
            /\ \A i \in Repos : (i < cancel_idx /\ fut[i] # "running") => fut'[i] # "running"
            /\ \A i \in Repos : i < cancel_idx => fut[i] # "pending"
            /\ \A i \in Repos : fut[i] = "running" => fut'[i] \in {"running", "finished"}
            /\ orch' = "returned"
                  => (~retval' /\ \A i \in Repos : fut'[i] \in {"finished", "cancelled"}) ]_vars

\* execute() returned false after a reported failure; it cancelled one task and
\* let another, already running, finish and record its result.
C5_Witness ==
    /\ Returned /\ ~retval /\ StoppedOnFailure
    /\ \E i \in Repos : fut[i] = "cancelled" /\ task[i].pc = "idle"
    /\ Cardinality({i \in Repos : task[i].pc = "done"}) >= 2

\* C6: once execute() has seen an exception escape a task with exit_on_error
\* set, no task that has not started is started, and execute() returns false.
C6_NoStartAfterObservedException ==
    [][ StoppedOnException =>
            /\ \A i \in Repos : fut[i] = "pending" => fut'[i] # "running"
            /\ orch' = "returned" => ~retval' ]_vars

\* C7: at every moment at most 4 workflows are executing, whatever the number
\* of repositories; a task that finds no worker free stays queued.
C7_AtMostFourRunning ==
    /\ Cardinality(Running) <= 4
    /\ \A i \in Repos : fut[i] = "pending" => task[i].pc = "idle"

\* Four workflows run and a fifth task waits in the queue.
C7_Witness ==
    /\ Cardinality(Running) = 4
    /\ \E i \in Repos : fut[i] = "pending"

\* C8: a workflow that has reached a terminal state (succeeded, skipped or
\* failed) has recorded exactly one result for its repository, and no workflow
\* ever records two, on any path, the error handlers included.
C8_ExactlyOneResult ==
    \A i \in Repos :
        /\ Cardinality(CallsOf(task[i], "add_result")) <= 1
        /\ Cardinality(RecordsOf(i)) = Cardinality(CallsOf(task[i], "add_result"))
        /\ task[i].pc = "done" =>
              /\ Cardinality(RecordsOf(i)) = 1
              /\ RecordOf(i).status \in {"succeeded", "skipped", "failed"}
              /\ task[i].ret = "true" <=> RecordOf(i).status \in {"succeeded", "skipped"}
        /\ task[i].pc # "done" => RecordsOf(i) = {}

\* A workflow ended in the handler of unexpected errors, on a commit that
\* raised, with its one record.
C8_Witness ==
    /\ task[1].pc = "done"
    /\ Len(results) = 1
    /\ results[1].status = "failed"
    /\ results[1].details = <<"Exception", "commit">>

\* C9: when has_changes() finds no changes the outcome is skipped with detail
\* "No changes", the task returns true, and no test command, stage, commit or
\* review submission is invoked for that repository.
C9_NoChangesSkips ==
    \A i \in Repos :
        LET t == task[i] IN
        (\E k \in CallsOf(t, "has_changes") : t.calls[k].result = "false") =>
            /\ t.pc = "done" /\ t.ret = "true"
            /\ Cardinality(RecordsOf(i)) = 1
            /\ RecordOf(i).status = "skipped"
            /\ RecordOf(i).details = <<"No changes", "">>
            /\ \A k \in CallsOf(t, "run_command") : t.calls[k].arg # "test"
            /\ CallsOf(t, "stage_all") = {}
            /\ CallsOf(t, "commit") = {}
            /\ CallsOf(t, "submit_review") = {}

\* Tests, commit and review are all enabled and the workflow was skipped.
C9_Witness ==
    /\ config.run_tests /\ config.commit /\ config.review
    /\ task[1].pc = "done"
    /\ Len(results) = 1
    /\ results[1].status = "skipped"

\* Every call the task made after position k succeeded.
LaterStepsSucceed(t, k) == \A j \in (k + 1)..Len(t.calls) : t.calls[j].result = "ok"

\* C10: with tests enabled and changes detected, a failed test command ends the
\* workflow as failed when tests_blocking is true, and no stage, commit or
\* review follows; when tests_blocking is false the workflow goes on to the
\* commit stage, and if the later steps succeed its outcome is succeeded, with
\* the commit and the review the configuration asks for.
C10_TestFailurePolicy ==
    \A i \in Repos :
        LET t == task[i] IN
        \A k \in Commands(t, "test", "fail") :
            /\ config.run_tests
            /\ \E h \in CallsOf(t, "has_changes") : h < k /\ t.calls[h].result = "true"
            /\ config.tests_blocking =>
                  /\ t.pc = "done" /\ t.ret = "false"
                  /\ RecordOf(i).status = "failed"
                  /\ RecordOf(i).details = <<"Tests failed (blocking)", "">>
                  /\ CallsOf(t, "stage_all") = {}
                  /\ CallsOf(t, "commit") = {}
                  /\ CallsOf(t, "submit_review") = {}
            /\ ~config.tests_blocking =>
                  /\ t.pc \in {"commit", "review", "post", "restore", "done"}
                  /\ (t.pc = "done" /\ LaterStepsSucceed(t, k)) =>
                        /\ t.ret = "true"
                        /\ RecordOf(i).status = "succeeded"
                        /\ config.commit => Cardinality(CallsOf(t, "commit")) = 1
                        /\ (config.commit /\ config.review)
                              => Cardinality(CallsOf(t, "submit_review")) = 1

\* The test command failed, tests do not block, and the workflow committed,
\* submitted for review and succeeded.
C10_Witness ==
    /\ ~config.tests_blocking
    /\ Commands(task[1], "test", "fail") # {}
    /\ CallsOf(task[1], "commit") # {}
    /\ CallsOf(task[1], "submit_review") # {}
    /\ task[1].pc = "done"
    /\ Len(results) = 1
    /\ results[1].status = "succeeded"

---------------------------------------------------------------------------
\* C11: with dry_run set, whatever the other switches, a workflow invokes no
\* adapter operation and no shell command, and when it returns its outcome is
\* succeeded.  (The only other way it can end is an exception in the
\* statements before the first step, which no step has run before.)
C11_DryRunInvokesNothing ==
    \A i \in Repos :
        LET t == task[i] IN
        config.dry_run =>
            /\ StepsOf(t) = <<>>
            /\ t.pc = "done" =>
                  /\ t.ret = "true"
                  /\ Cardinality(RecordsOf(i)) = 1
                  /\ RecordOf(i).status = "succeeded"
            /\ t.pc = "raised" => (t.calls = <<>> /\ t.narration = <<>>)

\* A dry run with every switch on and commands before and after has returned.
C11_Witness ==
    /\ config.dry_run /\ config.commit /\ config.review /\ config.run_tests
    /\ config.tests_blocking /\ config.branch # NoBranch
    /\ config.pre_commands # <<>> /\ config.post_commands # <<>>
    /\ task[1].pc = "done"
    /\ Len(results) = 1
    /\ results[1].status = "succeeded"

\* The would-be actions of a dry run under configuration c, in workflow order.
ExpectedNarration(c) ==
    <<"clone repository", "setup git-review">>
    \o (IF c.branch # NoBranch THEN <<"switch to branch">> ELSE <<>>)
    \o [k \in 1..Len(c.pre_commands) |-> "run pre-command"]
    \o <<"execute patch script">>
    \o (IF c.run_tests THEN <<"run tests">> ELSE <<>>)
    \o (IF c.commit THEN <<"commit changes">> ELSE <<>>)
    \o (IF c.commit /\ c.review THEN <<"submit for review">> ELSE <<>>)
    \o [k \in 1..Len(c.post_commands) |-> "run post-command"]
    \o (IF c.branch # NoBranch /\ ~c.stay_on_branch THEN <<"return to branch">> ELSE <<>>)

\* The would-be actions task t narrated.
Narrated(t) == [k \in 1..Len(t.narration) |-> t.narration[k].would]

\* C12: with dry_run set, every step from Clone through BranchRestore that the
\* configuration enables is narrated exactly once, in workflow order.
C12_EveryStepNarrated ==
    \A i \in Repos :
        (config.dry_run /\ task[i].pc = "done")
            => Narrated(task[i]) = ExpectedNarration(config)

\* C13: an unexpected error (an exception that is no RepositoryError) raised by
\* a step of the workflow ends the workflow there: the task returns false with
\* one failed record carrying the error, and the exception does not leave the
\* workflow; a task that let an exception escape had run no step.
C13_UnexpectedErrorBecomesFailed ==
    \A i \in Repos :
        LET t == task[i] IN
        /\ \A k \in 1..Len(t.calls) :
              t.calls[k].result = "Exception" =>
                  /\ t.pc = "done" /\ t.ret = "false"
                  /\ fut[i] = "finished"
                  /\ Len(t.calls) = k + 1 /\ t.calls[k + 1].op = "add_result"
                  /\ Cardinality(RecordsOf(i)) = 1
                  /\ RecordOf(i).status = "failed"
                  /\ RecordOf(i).details = <<"Exception", t.calls[k].op>>
        /\ t.pc = "raised" => t.calls = <<>>

\* The checkout that returns to the original branch raised an unexpected error
\* after commit and review went through, and the workflow recorded it as failed.
C13_Witness ==
    /\ task[1].pc = "done"
    /\ CallsOf(task[1], "submit_review") # {}
    /\ \E k \in CallsOf(task[1], "checkout_branch") :
          task[1].calls[k].arg = "main" /\ task[1].calls[k].result = "Exception"
    /\ Len(results) = 1
    /\ results[1].status = "failed"
    /\ results[1].details = <<"Exception", "checkout_branch">>

\* The directory a started task works in: workspace_path / self.name.
WorkPath(i) == <<workspace.path, RepoName(i)>>

\* The tasks that have begun to work.
Begun == {i \in Repos : task[i].pc # "idle"}

\* C14: for every list of locators, no two tasks of one run ever work in the
\* same working path.
C14_ExclusiveWorkPath ==
    \A i, j \in Begun : i # j => WorkPath(i) # WorkPath(j)

C16_PathNoneAfterCleanup ==
    [][workspace'.cleanups > workspace.cleanups => workspace'.path = "None"]_vars

\* The rendering of a template put together from `pieces`: the text of each
\* piece, with the repository name in the place of a placeholder of either form.
RECURSIVE Resolved(_, _)
Resolved(pieces, repo_name) ==
    IF pieces = <<>>
    THEN <<>>
    ELSE (IF Head(pieces) \in {"spaced", "unspaced"} THEN repo_name ELSE PieceText(Head(pieces)))
         \o Resolved(Tail(pieces), repo_name)

\* C17: the commit message a task commits with is its template with every
\* placeholder, spaced or unspaced, replaced by the repository name and
\* everything else unchanged; a template without a placeholder is unchanged.
C17_RenderReplacesBothForms ==
    \A i \in Repos :
        CallsOf(task[i], "commit") # {} =>
            \A pieces \in Pieces :
                config.commit_msg = JoinPieces(pieces)
                    => task[i].commit_msg = Resolved(pieces, RepoName(i))

\* A task committed with a template holding the placeholder in both forms.
C17_Witness ==
    /\ config.commit_msg = JoinPieces(<<"unspaced", "spaced">>)
    /\ CallsOf(task[1], "commit") # {}
    /\ task[1].commit_msg = RepoName(1) \o RepoName(1)
    /\ task[1].pc = "done"

\* The repository a locator names.
NamedBy(locator) ==
    CHOOSE nm \in LocatorNames :
        \E prefix \in LocatorPrefixes, tail \in LocatorTails :
            locator = BuildLocator(prefix, nm, tail)

\* C18: the derived name is the last path segment of the locator with
\* protocol and host stripped, one trailing ".git" removed and trailing slashes
\* ignored: HTTPS and SSH locators, with or without a trailing slash, that
\* name the same repository yield the same name, under which the task records.
C18_NameIsLastSegment ==
    /\ \A i \in Begun : RepoName(i) = <<NamedBy(config.projects[i])>>
    /\ \A k \in 1..Len(results) : results[k].repo \in {<<nm>> : nm \in LocatorNames}

\* The stages of the workflow in the order of the code.
StageOrder ==
    <<"idle", "begin", "clone", "setup_review", "branch", "pre", "patch", "detect",
      "tests", "commit", "review", "post", "restore">>

\* The place of a control position in the workflow; the terminal positions
\* come last.
PcRank(pc) ==
    IF pc \in Terminal
    THEN Len(StageOrder) + 1
    ELSE CHOOSE k \in 1..Len(StageOrder) : StageOrder[k] = pc
\* The elements of a list.
Range(list) == {list[k] : k \in 1..Len(list)}

\* The place of command cmd in the list cmds.
IndexIn(cmds, cmd) == CHOOSE k \in 1..Len(cmds) : cmds[k] = cmd

\* The place in the fixed order of the step a call belongs to: Clone,
\* ReviewSetup, BranchSwitch (current branch, clean check, existence check,
\* switch or create), the pre-commands in configured order, PatchExecution,
\* ChangeDetection, Tests, Commit (stage, commit), Review, the post-commands in
\* configured order, BranchRestore, the recording of the result.
StepRank(c, call) ==
    CASE call.op = "clone" -> 100
      [] call.op = "setup_review" -> 200
      [] call.op = "get_current_branch" -> 300
      [] call.op = "has_uncommitted_changes" -> 301
      [] call.op = "branch_exists" -> 302
      [] call.op = "create_branch" -> 303
      [] call.op = "checkout_branch" -> IF call.arg = c.branch THEN 303 ELSE 1100
      [] call.op = "run_command" ->
            IF call.arg = "patch" THEN 500
            ELSE IF call.arg = "test" THEN 700
            ELSE IF \E k \in 1..Len(c.pre_commands) : c.pre_commands[k] = call.arg
                 THEN 400 + IndexIn(c.pre_commands, call.arg)
                 ELSE 1000 + IndexIn(c.post_commands, call.arg)
      [] call.op = "has_changes" -> 600
      [] call.op = "stage_all" -> 800
      [] call.op = "commit" -> 801
      [] call.op = "submit_review" -> 900
      [] call.op = "add_result" -> 1200

\* The same for the would-be actions a dry run narrates.
NarrationRank(c, line) ==
    CASE line.would = "clone repository" -> 100
      [] line.would = "switch to branch" -> 303
      [] line.would = "run pre-command" -> 400 + IndexIn(c.pre_commands, line.arg)
      [] line.would = "execute patch script" -> 500
      [] line.would = "run tests" -> 700
      [] line.would = "commit changes" -> 801
      [] line.would = "submit for review" -> 900
      [] line.would = "run post-command" -> 1000 + IndexIn(c.post_commands, line.arg)
      [] line.would = "return to branch" -> 1100

\* Each call and each narrated action of task t belongs to a later step than
\* the one before it.
InStepOrder(c, t) ==
    /\ \A k \in 1..(Len(t.calls) - 1) :
          StepRank(c, t.calls[k]) < StepRank(c, t.calls[k + 1])
    /\ \A k \in 1..(Len(t.narration) - 1) :
          NarrationRank(c, t.narration[k]) < NarrationRank(c, t.narration[k + 1])

\* C19: within one repository the steps run one after another in the fixed
\* order Clone, ReviewSetup, BranchSwitch, the pre-commands in configured order,
\* PatchExecution, ChangeDetection, Tests, Commit, Review, the post-commands in
\* configured order, BranchRestore, result: every call (and every narrated
\* action) of a task belongs to a later step than the one before it, so no step
\* runs twice or out of order; the control position only moves forward, and
\* once a task is terminal nothing of it changes any more.
C19_FixedStepOrder ==
    [][\A i \in Repos :
          /\ InStepOrder(config, task'[i])
          /\ PcRank(task'[i].pc) >= PcRank(task[i].pc)
          /\ task[i].pc \in Terminal => task'[i] = task[i]]_vars

\* A workflow went through every step: branch switch, two pre-commands, patch,
\* change detection, tests, commit, review, two post-commands, branch restore.
C19_Witness ==
    /\ task[1].pc = "done"
    /\ task[1].ret = "true"
    /\ Len(config.pre_commands) >= 2 /\ Len(config.post_commands) >= 2
    /\ {task[1].calls[k].op : k \in 1..Len(task[1].calls)} =
          {"clone", "setup_review", "get_current_branch", "has_uncommitted_changes",
           "branch_exists", "checkout_branch", "run_command", "has_changes",
           "stage_all", "commit", "submit_review", "add_result"}
    /\ Cardinality(CallsOf(task[1], "checkout_branch")) = 2
    /\ Cardinality(CallsOf(task[1], "run_command")) = Len(config.pre_commands) + Len(config.post_commands) + 2

\* C20: outside dry-run Clone and ReviewSetup are run whatever the review and
\* commit switches are, Clone first and ReviewSetup right after it; a
\* RepositoryError from either ends the workflow as failed with the error as
\* detail, and no later step is run for that repository.
C20_CloneAndSetupMandatory ==
    \A i \in Repos :
        LET t == task[i] IN
        /\ (~config.dry_run /\ PcRank(t.pc) > PcRank("clone") /\ t.pc # "raised") =>
              /\ Len(t.calls) >= 1 /\ t.calls[1].op = "clone"
        /\ (~config.dry_run /\ PcRank(t.pc) > PcRank("setup_review") /\ t.pc # "raised"
                /\ t.calls[1].result = "ok") =>
              /\ Len(t.calls) >= 2 /\ t.calls[2].op = "setup_review"
        /\ \A k \in CallsOf(t, "clone") \cup CallsOf(t, "setup_review") :
              t.calls[k].result = "RepositoryError" =>
                  /\ t.pc = "done" /\ t.ret = "false"
                  /\ Len(t.calls) = k + 1 /\ t.calls[k + 1].op = "add_result"
                  /\ Cardinality(RecordsOf(i)) = 1
                  /\ RecordOf(i).status = "failed"
                  /\ RecordOf(i).details = <<"RepositoryError", t.calls[k].op>>

\* With review and commit both off, the review setup raised RepositoryError and
\* the workflow ended failed right there.
C20_Witness ==
    /\ ~config.review /\ ~config.commit
    /\ config.branch # NoBranch /\ config.pre_commands # <<>>
    /\ task[1].pc = "done"
    /\ Len(task[1].calls) = 3
    /\ task[1].calls[2] = [op |-> "setup_review", arg |-> "", result |-> "RepositoryError"]
    /\ Len(results) = 1
    /\ results[1].status = "failed"

---------------------------------------------------------------------------
\* The adapter calls of the BranchSwitch step.
BranchSwitchOps ==
    {"get_current_branch", "has_uncommitted_changes", "branch_exists", "create_branch"}

\* The positions of the calls that put the working copy on `branch`.
SwitchesTo(t, branch) ==
    {k \in CallsOf(t, "checkout_branch") \cup CallsOf(t, "create_branch") :
        t.calls[k].arg = branch}

\* Task i ended failed at call k, which is the last thing it did but for
\* recording the result with `details`.
FailedAt(i, k, details) ==
    /\ task[i].pc = "done" /\ task[i].ret = "false"
    /\ Len(task[i].calls) = k + 1 /\ task[i].calls[k + 1].op = "add_result"
    /\ Cardinality(RecordsOf(i)) = 1
    /\ RecordOf(i).status = "failed"
    /\ RecordOf(i).details = details

\* C21: BranchSwitch runs only when a branch is configured; it first asks for
\* the current branch and records it; then, if the working tree has uncommitted
\* changes the workflow ends failed and nothing is switched; else if the branch
\* exists it is switched to; else if create_branch is set it is created; else
\* the workflow ends failed because the branch does not exist.
C21_BranchSwitchDecisions ==
    \A i \in Repos :
        LET t == task[i] IN
        /\ \A k \in 1..Len(t.calls) :
              (t.calls[k].op \in BranchSwitchOps \cup {"checkout_branch"})
                  => config.branch # NoBranch
        /\ \A k \in CallsOf(t, "get_current_branch") :
              /\ k = 3
              /\ t.calls[k].result \in {"main", ""} =>
                    /\ t.original_branch = t.calls[k].result
                    /\ t.calls[k + 1].op = "has_uncommitted_changes"
        /\ \A k \in CallsOf(t, "has_uncommitted_changes") :
              /\ t.calls[k - 1].op = "get_current_branch"
              /\ t.calls[k].result = "true" =>
                    /\ FailedAt(i, k, <<"Repository has uncommitted changes", "">>)
                    /\ SwitchesTo(t, config.branch) = {}
              /\ t.calls[k].result = "false" =>
                    /\ t.calls[k + 1].op = "branch_exists"
                    /\ t.calls[k + 1].arg = config.branch
        /\ \A k \in CallsOf(t, "branch_exists") :
              /\ t.calls[k - 1] = [op |-> "has_uncommitted_changes", arg |-> "", result |-> "false"]
              /\ t.calls[k].result = "true" =>
                    /\ t.calls[k + 1].op = "checkout_branch"
                    /\ t.calls[k + 1].arg = config.branch
                    /\ CallsOf(t, "create_branch") = {}
              /\ (t.calls[k].result = "false" /\ config.create_branch) =>
                    /\ t.calls[k + 1].op = "create_branch"
                    /\ t.calls[k + 1].arg = config.branch
                    /\ SwitchesTo(t, config.branch) = {k + 1}
              /\ (t.calls[k].result = "false" /\ ~config.create_branch) =>
                    /\ FailedAt(i, k, <<"Branch does not exist", config.branch>>)
                    /\ SwitchesTo(t, config.branch) = {}
        /\ \A k \in SwitchesTo(t, config.branch) :
              t.calls[k - 1].op = "branch_exists"

\* The branch did not exist and was created; the workflow went on and succeeded.
C21_Witness ==
    /\ config.create_branch
    /\ task[1].original_branch = "main"
    /\ \E k \in CallsOf(task[1], "branch_exists") : task[1].calls[k].result = "false"
    /\ Cardinality(CallsOf(task[1], "create_branch")) = 1
    /\ task[1].pc = "done" /\ task[1].ret = "true"
    /\ Len(results) = 1

---------------------------------------------------------------------------
\* The positions in task t's history of its runs of the j-th command of cmds.
RunsOf(t, cmds, j) ==
    {k \in CallsOf(t, "run_command") : t.calls[k].arg = cmds[j]}

\* Every call the task made after position k ended the usual way: it
\* succeeded, and change detection found changes.
LaterStepsUsual(t, k) ==
    \A j \in (k + 1)..Len(t.calls) : t.calls[j].result \in {"ok", "true"}

\* C22: the pre-commands run in configured order, each at most once; when one
\* exits non-zero and continue_on_error is false the workflow ends failed
\* there and neither a later pre-command nor the patch is run; when
\* continue_on_error is true the next pre-command (after the last: the patch)
\* runs next, and if everything after the failure goes the usual way the
\* workflow ends succeeded.
C22_PreCommandFailurePolicy ==
    \A i \in Repos :
        LET t == task[i]
            cmds == config.pre_commands
        IN \A k \in 1..Len(t.calls) :
            (t.calls[k].op = "run_command" /\ t.calls[k].arg \in Range(cmds)) =>
                LET j == IndexIn(cmds, t.calls[k].arg) IN
                /\ \A m \in 1..(k - 1) : t.calls[m] # t.calls[k]
                /\ j > 1 => t.calls[k - 1].op = "run_command" /\ t.calls[k - 1].arg = cmds[j - 1]
                /\ j = 1 => \A m \in 1..(k - 1) : t.calls[m].op # "run_command"
                /\ (t.calls[k].result = "fail" /\ ~config.continue_on_error) =>
                      FailedAt(i, k, <<"Pre-command failed", cmds[j]>>)
                /\ (t.calls[k].result = "ok" \/ config.continue_on_error) =>
                      /\ Len(t.calls) = k => t.pc \in {"pre", "patch"}
                      /\ Len(t.calls) > k =>
                            /\ t.calls[k + 1].op = "run_command"
                            /\ t.calls[k + 1].arg = IF j < Len(cmds) THEN cmds[j + 1] ELSE "patch"
                      /\ (t.calls[k].result = "fail" /\ t.pc = "done" /\ LaterStepsUsual(t, k)) =>
                            /\ t.ret = "true"
                            /\ Cardinality(RecordsOf(i)) = 1
                            /\ RecordOf(i).status = "succeeded"

\* With continue_on_error the first pre-command failed, the second ran, and
\* the workflow succeeded.
C22_Witness ==
    /\ config.continue_on_error
    /\ Len(config.pre_commands) >= 2
    /\ Commands(task[1], config.pre_commands[1], "fail") # {}
    /\ Commands(task[1], config.pre_commands[2], "ok") # {}
    /\ task[1].pc = "done" /\ task[1].ret = "true"
    /\ Len(results) = 1 /\ results[1].status = "succeeded"

---------------------------------------------------------------------------
\* The adapter calls of the steps that follow PatchExecution.
AfterPatchOps ==
    {"has_changes", "stage_all", "commit", "submit_review", "checkout_branch"}

\* C23: when the patch command exits non-zero the workflow ends failed with
\* the detail "Patch script failed", whatever continue_on_error is, and no
\* change detection, test, commit, review, post-command or branch restoration
\* follows.
C23_PatchFailureIsFatal ==
    \A i \in Repos :
        LET t == task[i] IN
        \A k \in Commands(t, "patch", "fail") :
            /\ FailedAt(i, k, <<"Patch script failed", "">>)
            /\ \A j \in (k + 1)..Len(t.calls) :
                  /\ t.calls[j].op \notin AfterPatchOps
                  /\ t.calls[j].op # "run_command"

\* The patch failed with continue_on_error set, after a switch to the
\* configured branch, and the workflow ended failed.
C23_Witness ==
    /\ config.continue_on_error
    /\ config.branch # NoBranch /\ ~config.stay_on_branch
    /\ config.post_commands # <<>> /\ config.run_tests /\ config.commit
    /\ Commands(task[1], "patch", "fail") # {}
    /\ task[1].pc = "done" /\ task[1].ret = "false"
    /\ Len(results) = 1 /\ results[1].details = <<"Patch script failed", "">>

---------------------------------------------------------------------------
\* C24: the post-commands run in configured order, each at most once, after
\* the commit and the review; when one exits non-zero and continue_on_error is
\* false the workflow ends failed there and no later post-command is run; when
\* continue_on_error is true the next post-command runs next (after the last:
\* the branch restoration or the recording of success), and if everything
\* after the failure succeeds the workflow ends succeeded.
C24_PostCommandFailurePolicy ==
    \A i \in Repos :
        LET t == task[i]
            cmds == config.post_commands
        IN \A k \in 1..Len(t.calls) :
            (t.calls[k].op = "run_command" /\ t.calls[k].arg \in Range(cmds)) =>
                LET j == IndexIn(cmds, t.calls[k].arg) IN
                /\ \A m \in 1..(k - 1) : t.calls[m] # t.calls[k]
                /\ j > 1 => t.calls[k - 1].op = "run_command" /\ t.calls[k - 1].arg = cmds[j - 1]
                /\ j = 1 =>
                      \/ t.calls[k - 1].op \in {"has_changes", "commit", "submit_review"}
                      \/ t.calls[k - 1].op = "run_command" /\ t.calls[k - 1].arg = "test"
                /\ \A m \in (k + 1)..Len(t.calls) :
                      t.calls[m].op \notin {"stage_all", "commit", "submit_review"}
                /\ config.commit => \E m \in 1..(k - 1) : t.calls[m].op = "commit"
                /\ (config.commit /\ config.review)
                      => \E m \in 1..(k - 1) : t.calls[m].op = "submit_review"
                /\ (t.calls[k].result = "fail" /\ ~config.continue_on_error) =>
                      FailedAt(i, k, <<"Post-command failed", cmds[j]>>)
                /\ (t.calls[k].result = "ok" \/ config.continue_on_error) =>
                      /\ Len(t.calls) = k => t.pc \in {"post", "restore"}
                      /\ (Len(t.calls) > k /\ j < Len(cmds)) =>
                            /\ t.calls[k + 1].op = "run_command"
                            /\ t.calls[k + 1].arg = cmds[j + 1]
                      /\ (Len(t.calls) > k /\ j = Len(cmds)) =>
                            t.calls[k + 1].op \in {"checkout_branch", "add_result"}
                      /\ (t.calls[k].result = "fail" /\ t.pc = "done" /\ LaterStepsSucceed(t, k)) =>
                            /\ t.ret = "true"
                            /\ Cardinality(RecordsOf(i)) = 1
                            /\ RecordOf(i).status = "succeeded"

\* Without continue_on_error the first post-command failed after the commit
\* and the review: the workflow ended failed and the second never ran.
C24_Witness ==
    /\ ~config.continue_on_error
    /\ Len(config.post_commands) >= 2
    /\ CallsOf(task[1], "commit") # {} /\ CallsOf(task[1], "submit_review") # {}
    /\ Commands(task[1], config.post_commands[1], "fail") # {}
    /\ RunsOf(task[1], config.post_commands, 2) = {}
    /\ task[1].pc = "done" /\ task[1].ret = "false"
    /\ Len(results) = 1 /\ results[1].status = "failed"

---------------------------------------------------------------------------
\* C25: staging and committing happen only with commit enabled and only after
\* change detection found changes; the changes are staged first, then exactly
\* one commit is made, with the template in which the repository's derived
\* name stands for the placeholder as its message; a workflow that gets past
\* the commit step with commit enabled has made that commit; a failure of
\* staging or committing ends the workflow failed.
C25_CommitStagesThenCommitsOnce ==
    \A i \in Repos :
        LET t == task[i] IN
        /\ \A k \in CallsOf(t, "stage_all") \cup CallsOf(t, "commit") :
              /\ config.commit /\ ~config.dry_run
              /\ \E h \in CallsOf(t, "has_changes") : h < k /\ t.calls[h].result = "true"
              /\ t.calls[k].result # "ok" =>
                    FailedAt(i, k, <<t.calls[k].result, t.calls[k].op>>)
        /\ Cardinality(CallsOf(t, "stage_all")) <= 1
        /\ Cardinality(CallsOf(t, "commit")) <= 1
        /\ \A k \in CallsOf(t, "commit") :
              /\ t.calls[k - 1] = [op |-> "stage_all", arg |-> "", result |-> "ok"]
              /\ config.commit_msg = DefaultTemplate
                    => t.commit_msg = PieceText("text") \o RepoName(i)
        /\ \A k \in CallsOf(t, "stage_all") :
              t.calls[k].result = "ok" => (k + 1) \in CallsOf(t, "commit")
        /\ (config.commit /\ ~config.dry_run
                /\ (t.pc \in {"review", "post", "restore"}
                        \/ (t.pc = "done" /\ RecordOf(i).status = "succeeded"))) =>
              \E k \in CallsOf(t, "commit") : t.calls[k].result = "ok"

\* The changes were staged and the commit failed: the workflow ended failed
\* with the commit's error.
C25_Witness ==
    /\ config.commit /\ config.review
    /\ \E k \in CallsOf(task[1], "commit") : task[1].calls[k].result = "RepositoryError"
    /\ CallsOf(task[1], "stage_all") # {}
    /\ CallsOf(task[1], "submit_review") = {}
    /\ task[1].commit_msg = PieceText("text") \o RepoName(1)
    /\ task[1].pc = "done" /\ task[1].ret = "false"
    /\ Len(results) = 1 /\ results[1].details = <<"RepositoryError", "commit">>

---------------------------------------------------------------------------
\* Repository.submit_review: the command line it runs for the topic it is given.
ReviewCommand(topic) ==
    <<"git", "review">> \o (IF topic \notin {"None", ""} THEN <<"-t", topic>> ELSE <<>>)

\* C26: a review is submitted only with commit and review both enabled, at
\* most once per repository and right after the commit succeeded; it is
\* given the configured topic, and an empty topic is no topic: the command
\* carries no -t option.  A workflow that gets past the review step with both
\* switches on has submitted the review.
C26_ReviewOnlyAfterCommit ==
    \A i \in Repos :
        LET t == task[i] IN
        /\ Cardinality(CallsOf(t, "submit_review")) <= 1
        /\ \A k \in CallsOf(t, "submit_review") :
              /\ config.commit /\ config.review /\ ~config.dry_run
              /\ t.calls[k - 1] = [op |-> "commit", arg |-> "", result |-> "ok"]
              /\ ReviewCommand(t.calls[k].arg) =
                    IF config.topic = ""
                    THEN <<"git", "review">>
                    ELSE <<"git", "review", "-t", config.topic>>
        /\ (config.commit /\ config.review /\ ~config.dry_run
                /\ (t.pc \in {"post", "restore"}
                        \/ (t.pc = "done" /\ RecordOf(i).status = "succeeded"))) =>
              \E k \in CallsOf(t, "submit_review") : t.calls[k].result = "ok"
        /\ (~config.commit /\ t.pc = "done" /\ ~config.dry_run /\ t.ret = "true") =>
              CallsOf(t, "submit_review") = {}

\* With an empty topic the review was submitted after the commit, and the
\* workflow succeeded.
C26_Witness ==
    /\ config.commit /\ config.review /\ config.topic = ""
    /\ \E k \in CallsOf(task[1], "submit_review") :
          /\ task[1].calls[k] = [op |-> "submit_review", arg |-> "None", result |-> "ok"]
          /\ task[1].calls[k - 1].op = "commit"
    /\ task[1].pc = "done" /\ task[1].ret = "true"
    /\ Len(results) = 1 /\ results[1].status = "succeeded"

---------------------------------------------------------------------------
\* The positions of the checkout that BranchRestore makes: BranchSwitch makes
\* its own right after branch_exists.
RestoreCalls(t) ==
    {k \in CallsOf(t, "checkout_branch") : t.calls[k - 1].op # "branch_exists"}

\* The branch the working copy is on: the one the last successful checkout or
\* create put it on, before any the one get_current_branch reported.
CurrentBranch(t) ==
    LET moves == {k \in CallsOf(t, "checkout_branch") \cup CallsOf(t, "create_branch") :
                     t.calls[k].result = "ok"}
        asked == {k \in CallsOf(t, "get_current_branch") : t.calls[k].result \in {"main", ""}}
    IN IF moves # {}
       THEN t.calls[CHOOSE k \in moves : \A m \in moves : m <= k].arg
       ELSE IF asked # {}
       THEN t.calls[CHOOSE k \in asked : TRUE].result
       ELSE "unknown"

\* A branch is configured, the branch active before the switch was recorded,
\* and stay_on_branch is off.
RestoreWanted(c, t) ==
    /\ c.branch # NoBranch
    /\ t.original_branch \notin {"None", ""}
    /\ ~c.stay_on_branch

\* C27: BranchRestore is executed exactly when a branch is configured, an
\* original branch was recorded, stay_on_branch is false and the workflow got
\* to the end of the post-commands; it checks out exactly the branch that
\* get_current_branch reported before the switch; with stay_on_branch the
\* working copy of a workflow that succeeded is on the configured branch.
C27_RestoreExactlyWhenWanted ==
    \A i \in Repos :
        LET t == task[i] IN
        /\ Cardinality(RestoreCalls(t)) <= 1
        /\ \A k \in RestoreCalls(t) :
              /\ RestoreWanted(config, t)
              /\ t.calls[k].arg = t.original_branch
              /\ \E g \in CallsOf(t, "get_current_branch") :
                    g < k /\ t.calls[g].result = t.calls[k].arg
              /\ \A j \in 1..Len(config.post_commands) :
                    \E m \in RunsOf(t, config.post_commands, j) : m < k
              /\ \A m \in CallsOf(t, "run_command") : m < k
              /\ t.calls[k].result = "ok" => CurrentBranch(t) = t.original_branch
        /\ (t.pc = "done" /\ RecordOf(i).status = "succeeded") =>
              /\ RestoreWanted(config, t) =>
                    \E k \in RestoreCalls(t) : t.calls[k].result = "ok"
              /\ (config.branch # NoBranch /\ config.stay_on_branch /\ ~config.dry_run) =>
                    /\ RestoreCalls(t) = {}
                    /\ CurrentBranch(t) = config.branch

\* The workflow switched from main to the configured branch, ran its
\* post-commands and returned to main.
C27_Witness ==
    /\ ~config.stay_on_branch /\ config.post_commands # <<>>
    /\ task[1].original_branch = "main"
    /\ \E k \in RestoreCalls(task[1]) :
          task[1].calls[k] = [op |-> "checkout_branch", arg |-> "main", result |-> "ok"]
    /\ SwitchesTo(task[1], config.branch) # {}
    /\ CurrentBranch(task[1]) = "main"
    /\ task[1].pc = "done" /\ task[1].ret = "true"

---------------------------------------------------------------------------
\* C28: when change detection finds no changes the workflow records skipped
\* and returns at once: no test, commit, review or post-command runs and the
\* original branch is not restored, so after a branch switch the working copy
\* stays on the configured branch even with stay_on_branch false.
C28_NoChangesLeavesBranch ==
    \A i \in Repos :
        LET t == task[i] IN
        \A k \in CallsOf(t, "has_changes") :
            t.calls[k].result = "false" =>
                /\ t.pc = "done" /\ t.ret = "true"
                /\ Len(t.calls) = k + 1
                /\ t.calls[k + 1] = [op |-> "add_result", arg |-> "skipped", result |-> "ok"]
                /\ RestoreCalls(t) = {}
                /\ \A j \in 1..Len(config.post_commands) :
                      RunsOf(t, config.post_commands, j) = {}
                /\ Commands(t, "test", "ok") \cup Commands(t, "test", "fail") = {}
                /\ config.branch # NoBranch => CurrentBranch(t) = config.branch

\* From main the workflow switched to the configured branch, found no changes,
\* and ended skipped on that branch although stay_on_branch is false.
C28_Witness ==
    /\ config.branch # NoBranch /\ ~config.stay_on_branch
    /\ config.post_commands # <<>>
    /\ task[1].original_branch = "main"
    /\ \E k \in CallsOf(task[1], "has_changes") : task[1].calls[k].result = "false"
    /\ CurrentBranch(task[1]) = config.branch
    /\ task[1].pc = "done"
    /\ Len(results) = 1 /\ results[1].status = "skipped"

---------------------------------------------------------------------------
\* The kinds of command the workflow runs through run_command.
CommandKinds == {"pre_command", "patch", "test", "post_command"}

\* C29: run_command never raises: a non-zero exit, a timeout and a command
\* that cannot be launched all come back as a tuple with success false, the
\* timeout with empty stdout and the fixed diagnostic, so a pre-command, patch,
\* test or post-command reaches the workflow as ok or fail, never as an
\* exception.
C29_RunCommandReturnsData ==
    /\ git.method = "run_command" =>
          LET r == git.returned IN
          /\ r.raised = "none"
          /\ Len(r.value) = 3
          /\ r.value[1] = "true" <=> git.env = "exit0"
          /\ r.value[1] = "false" <=> git.env \in {"exit1", "timeout", "oserror"}
          /\ git.env = "timeout" =>
                r.value = <<"false", "", "Command timed out after 10 minutes">>
          /\ git.env = "oserror" => r.value[2] = ""
          /\ CommandResult(r) \in {"ok", "fail"}
    /\ \A op \in CommandKinds : CmdOutcomes(op) = {"ok", "fail"}

\* The test command outlived its timeout and run_command returned failure.
C29_Witness ==
    /\ git.method = "run_command" /\ git.arg = "test"
    /\ git.env = "timeout"
    /\ git.returned.raised = "none"
    /\ git.returned.value[1] = "false"

\* C30: branch_exists(X) returns true iff refs/heads/X or
\* refs/remotes/origin/X exists and false when neither does; it asks about the
\* local ref first and, when that exists, does not ask about the
\* remote-tracking ref.
C30_BranchExistsLocalFirst ==
    git.method = "branch_exists" =>
        LET r == git.returned
            X == git.arg
        IN /\ r.raised = "none" =>
                 /\ r.value \in {"true", "false"}
                 /\ r.value = "true" <=> (X \in git.local \/ X \in git.remote)
                 /\ r.value = "false" <=> (X \notin git.local /\ X \notin git.remote)
           /\ Len(r.log) >= 1
           /\ r.log[1] = ShowRef(<<"refs/heads", X>>)
           /\ (X \in git.local /\ r.raised = "none") => r.log = <<ShowRef(<<"refs/heads", X>>)>>
           /\ (X \notin git.local /\ r.raised = "none") =>
                 r.log = <<ShowRef(<<"refs/heads", X>>), ShowRef(<<"refs/remotes/origin", X>>)>>
           /\ r.raised = "none" <=>
                 (git.env = "none" \/ (git.env = "second" /\ X \in git.local))

\* The branch exists both locally and on origin: true, and only the local ref
\* was asked about.
C30_Witness ==
    /\ git.method = "branch_exists" /\ git.arg = "feature"
    /\ "feature" \in git.local /\ "feature" \in git.remote
    /\ git.returned.value = "true"
    /\ Len(git.returned.log) = 1

---------------------------------------------------------------------------
\* C31: checkout_branch(X) checks X out directly when it exists locally;
\* otherwise it creates a local branch X tracking origin/X and checks that
\* out; when X exists nowhere that fails: RepositoryError is raised and the
\* current branch is as it was.
C31_CheckoutLocalElseTracking ==
    [][git'.method = "checkout_branch" =>
          LET X == git'.arg
              r == git'.returned
              heads == ShowRef(<<"refs/heads", X>>)
          IN /\ git'.remote = git.remote
             /\ (X \in git.local /\ git'.env = "none") =>
                   /\ r.raised = "none"
                   /\ r.log = <<heads, <<"checkout", X>>>>
                   /\ git'.head = X /\ git'.local = git.local
             /\ (X \notin git.local /\ X \in git.remote /\ git'.env = "none") =>
                   /\ r.raised = "none"
                   /\ r.log = <<heads, <<"checkout", "-b", X, "origin/" \o X>>>>
                   /\ git'.head = X /\ git'.local = git.local \cup {X}
             /\ (X \notin git.local /\ X \notin git.remote) =>
                   /\ r.raised # "none"
                   /\ git'.env \in {"none", "first", "refused"} => r.raised = "RepositoryError"
             /\ r.raised # "none" => (git'.head = git.head /\ git'.local = git.local)
      ]_vars

\* A branch that exists only on origin was checked out as a tracking branch
\* from another branch.
C31_Witness ==
    /\ git.method = "checkout_branch" /\ git.arg = "feature"
    /\ git.returned.raised = "none"
    /\ Len(git.returned.log) = 2 /\ Len(git.returned.log[2]) = 4
    /\ git.head = "feature" /\ git.local = {"main", "feature"}

---------------------------------------------------------------------------
\* Task i reaches its terminal state in this step.
Completes(i) == task[i].pc \notin Terminal /\ task'[i].pc \in Terminal

\* C32: results are recorded in completion order: the record of a workflow
\* comes into the collection when the workflow reaches its terminal state, after
\* the records of all the workflows that reached theirs before and whatever the
\* position of its repository in the configured list; nothing else changes
\* the collection.
C32_RecordedInCompletionOrder ==
    [][/\ \A i \in Repos :
             (Completes(i) /\ task'[i].pc = "done") =>
                 /\ Len(results') = Len(results) + 1
                 /\ SubSeq(results', 1, Len(results)) = results
                 /\ results'[Len(results')].repo = RepoName(i)
       /\ results' # results => \E i \in Repos : Completes(i)
      ]_vars

\* The repository configured second was recorded first, the one configured
\* first after it.
C32_Witness ==
    /\ Len(results) >= 2
    /\ results[1].repo = RepoName(2)
    /\ results[2].repo = RepoName(1)
    /\ task[3].pc = "idle"

---------------------------------------------------------------------------
\* The tasks whose workflow ended by returning: it recorded a result.
Recorded == {i \in Repos : task[i].pc = "done"}

\* C33: appending to the shared result collection is safe under every
\* interleaving of finishing tasks: a step never removes or changes a record
\* that is there, and after every step the collection holds exactly one record
\* for each task that has reached a terminal state of the workflow and none
\* for any other; so it does after all tasks have finished.
C33_AppendLosesNothing ==
    [][/\ Len(results') >= Len(results)
       /\ SubSeq(results', 1, Len(results)) = results
       /\ Len(results') = Cardinality({i \in Repos : task'[i].pc = "done"})
       /\ \A i \in Repos :
             Cardinality({k \in 1..Len(results') : results'[k].repo = RepoName(i)})
                 = IF task'[i].pc = "done" THEN 1 ELSE 0
      ]_vars

\* All tasks ran at the same time, all have finished, and each has its record.
C33_Witness ==
    /\ NumProjects >= 3
    /\ \A i \in Repos : fut[i] = "finished" /\ task[i].pc = "done"
    /\ Len(results) = NumProjects
    /\ {results[k].repo : k \in 1..Len(results)} = {RepoName(i) : i \in Repos}
    /\ {results[k].status : k \in 1..Len(results)} = {"failed", "skipped", "succeeded"}
    /\ orch = "collect" /\ observed = {}

---------------------------------------------------------------------------
\* C34: the workspace is created exactly once per run and before any
\* repository task starts, and it is never torn down while a repository task
\* is still running: create() is never called twice, it has been called once
\* as soon as execute() is past its first statement and before any task is
\* submitted, and while a task runs the workspace directory is there.
C34_WorkspaceOnceAndKeptWhileRunning ==
    /\ workspace.creates <= 1
    /\ orch \in {"submit", "collect", "cancel", "shutdown", "unwinding", "returned"}
          => workspace.creates = 1
    /\ \A i \in Repos :
          /\ fut[i] # "unsubmitted" => workspace.creates = 1
          /\ fut[i] = "running" => workspace.dir /\ workspace.path = "ws"

\* A task runs in the workspace while another is still queued; cleanup() was
\* called before execute() and did nothing.
C34_Witness ==
    /\ orch = "collect"
    /\ \E i \in Repos : fut[i] = "running" /\ task[i].pc # "idle"
    /\ workspace.creates = 1 /\ workspace.dir
    /\ workspace.cleanups >= 1

---------------------------------------------------------------------------
\* The tasks a worker has taken up.
Started == {i \in Repos : task[i].pc # "idle"}

\* The three counts print_summary prints.
SummaryCounts(rs) ==
    [status \in {"succeeded", "skipped", "failed"} |->
        Cardinality({k \in 1..Len(rs) : rs[k].status = status})]

\* The number of records the summary counts.
SummaryTotal(rs) ==
    SummaryCounts(rs)["succeeded"] + SummaryCounts(rs)["skipped"] + SummaryCounts(rs)["failed"]

\* C35 (as stated): when execute() has returned, every task that was started
\* has reached a terminal state and recorded its result, none is running, and
\* the summary counts cover every started task.
C35_ReturnAfterEveryStartedTaskRecorded ==
    Returned =>
        /\ Running = {}
        /\ \A i \in Started : task[i].pc \in Terminal /\ Cardinality(RecordsOf(i)) = 1
        /\ SummaryTotal(results) = Cardinality(Started)

\* C35 (amended): when execute() has returned, also after the exit_on_error
\* early exit: no task is running and none waits in the queue; every task that
\* was started has ended, with exactly one record if it returned and with none
\* if an exception escaped it; and the summary counts cover exactly the
\* started tasks that returned, each under its own status.
C35_ReturnAfterEveryStartedTaskEnded ==
    Returned =>
        /\ Running = {}
        /\ \A i \in Repos : fut[i] \in {"unsubmitted", "finished", "cancelled"}
        /\ \A i \in Started :
              /\ task[i].pc \in Terminal /\ fut[i] = "finished"
              /\ Cardinality(RecordsOf(i)) = IF task[i].pc = "done" THEN 1 ELSE 0
        /\ \A i \in Repos \ Started : RecordsOf(i) = {}
        /\ SummaryTotal(results) = Cardinality(Started \ Escaped)
        /\ \A status \in {"succeeded", "skipped", "failed"} :
              SummaryCounts(results)[status] =
                  Cardinality({i \in Recorded : RecordOf(i).status = status})

\* execute() returned on the early-exit path: one task reported a failure, one
\* that was running then went on to its end, and one was cancelled in the queue.
C35_Witness ==
    /\ Returned /\ exit_on_error /\ StoppedOnFailure
    /\ Cardinality(Started) = 2 /\ Cardinality(Recorded) = 2
    /\ \E i \in Repos : fut[i] = "cancelled"
    /\ SummaryCounts(results)["failed"] = 1
    /\ SummaryTotal(results) = 2

---------------------------------------------------------------------------
(* Termination.  Every call a workflow makes returns, so each step of the   *)
(* model can be taken once it is enabled; the main thread and the worker    *)
(* threads are scheduled by the interpreter, which never leaves the process *)
(* standing while one of them can go on.  A behaviour of the model is       *)
(* finite, so this one condition is all the fairness termination needs.     *)

\* One repository more than the pool has workers: the shortest queue in which
\* a task has to wait for a worker.
OverCapacity == MaxWorkers + 1

\* The script is in place.  Fewer repositories than workers and as many: a
\* workflow may raise before its try block or fail while cloning, with and
\* without exit_on_error.  One repository more than workers:
\* with exit_on_error a task may raise, which ends the collecting while a task
\* waits in the queue.  NumRepos repositories without exit_on_error: no task
\* fails, as a failure would change nothing in the pool's course.
InitFair ==
    /\ \/ \E n \in {2, MaxWorkers} :
             InitWith(PlainConfig([i \in 1..n |-> Locator(i)]),
                      {<<"begin", "Exception">>, <<"clone", "RepositoryError">>})
       \/ /\ InitWith(PlainConfig([i \in 1..OverCapacity |-> Locator(i)]),
                      {<<"begin", "Exception">>})
          /\ exit_on_error
       \/ /\ InitWith(PlainConfig([i \in 1..NumRepos |-> Locator(i)]), {})
          /\ ~exit_on_error
    /\ script = ReadyScript

NextFair ==
    \/ Preflight
    \/ Submit
    \/ \E i \in Repos : Start(i)
    \/ \E i \in Repos : RunWorkflow(i)
    \/ \E i \in Repos : Observe(i)
    \/ CancelNext
    \/ Finish

SpecFair == InitFair /\ [][NextFair]_vars /\ WF_vars(NextFair)

\* C36: as every adapter operation and shell command returns, execute()
\* returns, and by then every workflow that was started has reached a terminal
\* state: with and without exit_on_error, for fewer repositories than workers,
\* as many, and more.
C36_WorkflowsEndAndExecuteReturns ==
    <>(/\ Returned
       /\ \A i \in Started : task[i].pc \in Terminal /\ fut[i] = "finished")

\* execute() returned over more repositories than workers after a task had
\* raised: the tasks then in the queue were still run to their end.
C36_Witness ==
    /\ Returned /\ exit_on_error /\ NumProjects > MaxWorkers
    /\ StoppedOnException
    /\ \E i \in Repos : task[i].pc = "raised"
    /\ \A i \in Repos : task[i].pc \in Terminal /\ fut[i] = "finished"

---------------------------------------------------------------------------
(* Real runs: Spec without its dry-run configurations, in which the         *)
(* workflow makes no adapter call.                                          *)

InitRun == Init /\ ~config.dry_run

SpecRun == InitRun /\ [][Next]_vars

\* The workflow of t returned False.
EndedFailed(t) == t.pc = "done" /\ t.ret = "false"

\* BranchSwitch put the working copy on the configured branch.
SwitchedOk(c, t) ==
    \E k \in SwitchesTo(t, c.branch) : t.calls[k].result = "ok"

\* C37: a workflow that fails after a successful BranchSwitch, at a
\* pre-command, the patch, change detection, blocking tests, staging, the
\* commit, the review or a post-command, never invokes the checkout of the
\* recorded original branch: the working copy is left on the configured
\* branch, also with stay_on_branch false.  The one failed workflow that has
\* invoked that checkout is the one in which the checkout itself failed.
C37_FailureLeavesConfiguredBranch ==
    \A i \in Repos :
        LET t == task[i] IN
        (EndedFailed(t) /\ SwitchedOk(config, t)) =>
            LET failing == Len(t.calls) - 1
                mid == {"run_command", "has_changes", "stage_all", "commit", "submit_review"}
            IN
            /\ t.calls[failing + 1].op = "add_result"
            /\ t.calls[failing].op \in mid =>
                  /\ RestoreCalls(t) = {}
                  /\ CurrentBranch(t) = config.branch
            /\ t.calls[failing].op \notin mid =>
                  /\ RestoreCalls(t) = {failing}
                  /\ t.calls[failing].result # "ok"

\* From main the workflow switched to the configured branch and committed; a
\* post-command failed, and the working copy stayed on the configured branch
\* although stay_on_branch is false.
C37_Witness ==
    /\ ~config.stay_on_branch /\ ~config.continue_on_error
    /\ task[1].original_branch = "main"
    /\ SwitchedOk(config, task[1])
    /\ Commands(task[1], PostCmdNames[1], "fail") # {}
    /\ CallsOf(task[1], "commit") # {}
    /\ EndedFailed(task[1])
    /\ RestoreCalls(task[1]) = {}
    /\ CurrentBranch(task[1]) = config.branch

---------------------------------------------------------------------------
\* C38: no commit is made for a repository whose test command failed while
\* run_tests and tests_blocking are both set: whenever the workflow stages or
\* commits, change detection has answered that there are changes, and the
\* tests are disabled, or have run before and passed, or are not blocking.
C38_NoCommitAfterBlockingTestFailure ==
    \A i \in Repos :
        LET t == task[i] IN
        /\ \A k \in CallsOf(t, "stage_all") \cup CallsOf(t, "commit") :
              /\ \E h \in CallsOf(t, "has_changes") : h < k /\ t.calls[h].result = "true"
              /\ \/ ~config.run_tests /\ Commands(t, "test", "ok") \cup Commands(t, "test", "fail") = {}
                 \/ \E r \in Commands(t, "test", "ok") : r < k
                 \/ ~config.tests_blocking /\ \E r \in Commands(t, "test", "fail") : r < k
        /\ (config.run_tests /\ config.tests_blocking /\ Commands(t, "test", "fail") # {}) =>
              /\ CallsOf(t, "stage_all") \cup CallsOf(t, "commit") = {}
              /\ CallsOf(t, "submit_review") = {}
              /\ t.pc = "done" /\ t.ret = "false"

\* The tests failed, they are not blocking, and the commit was made.
C38_Witness ==
    /\ config.run_tests /\ ~config.tests_blocking /\ config.commit
    /\ Commands(task[1], "test", "fail") # {}
    /\ \E k \in CallsOf(task[1], "commit") : task[1].calls[k].result = "ok"
    /\ \E h \in CallsOf(task[1], "has_changes") : task[1].calls[h].result = "true"

---------------------------------------------------------------------------
\* C39: a failed outcome does not mean that nothing was published.  When,
\* after the commit succeeded, the review submission fails, or a post-command
\* fails with continue_on_error false, the workflow ends there with failed as
\* the repository's single result, while the commit, and the review submission
\* if it had run, stay performed: nothing the workflow does afterwards takes
\* them back: after its commit a workflow only submits the review, runs the
\* post-commands, returns to the original branch and records its result.
C39_FailedAfterCommitKeepsCommit ==
    \A i \in Repos :
        LET t == task[i] IN
        \A k \in CallsOf(t, "commit") :
            t.calls[k].result = "ok" =>
                /\ \A m \in (k + 1)..Len(t.calls) :
                      t.calls[m].op \in {"submit_review", "run_command",
                                         "checkout_branch", "add_result"}
                /\ \A m \in CallsOf(t, "submit_review") :
                      /\ m = k + 1
                      /\ t.calls[m].result # "ok" =>
                            FailedAt(i, m, <<t.calls[m].result, "submit_review">>)
                /\ \A m \in (k + 1)..Len(t.calls) :
                      (/\ t.calls[m].op = "run_command"
                       /\ t.calls[m].result = "fail"
                       /\ ~config.continue_on_error) =>
                          /\ FailedAt(i, m, <<"Post-command failed", t.calls[m].arg>>)
                          /\ config.review =>
                                t.calls[k + 1] = [op |-> "submit_review",
                                                  arg |-> IF config.topic # "" THEN config.topic
                                                                               ELSE "None",
                                                  result |-> "ok"]

\* The commit was made and the review submitted; then a post-command failed,
\* and the repository's one result is failed.
C39_Witness ==
    /\ config.commit /\ config.review /\ ~config.continue_on_error
    /\ \E k \in CallsOf(task[1], "commit") :
          /\ task[1].calls[k].result = "ok"
          /\ Len(task[1].calls) >= k + 2
          /\ task[1].calls[k + 1].op = "submit_review" /\ task[1].calls[k + 1].result = "ok"
          /\ task[1].calls[k + 2] = [op |-> "run_command", arg |-> PostCmdNames[1],
                                     result |-> "fail"]
    /\ EndedFailed(task[1])
    /\ Len(results) = 1 /\ results[1].status = "failed"
    /\ results[1].details = <<"Post-command failed", PostCmdNames[1]>>

---------------------------------------------------------------------------
\* C40: get_current_branch returns the empty string on a detached HEAD, it
\* does not raise: whenever its subprocess has run, its answer is the branch
\* HEAD is on, and "" when HEAD is detached.  So a workflow that started from a
\* detached HEAD with a branch configured records "" as the original branch,
\* goes through BranchSwitch, and when it succeeds it has made no
\* BranchRestore, also with stay_on_branch false: the working copy is on the
\* configured branch.
C40_DetachedHeadIsEmptyAndNotRestored ==
    /\ GetCurrentBranch("", "exit0") =
           MethodResult("none", "", <<(<<"rev-parse", "--abbrev-ref", "HEAD">>)>>)
    /\ \A i \in Repos :
          LET t == task[i] IN
          \A k \in CallsOf(t, "get_current_branch") :
              LET head == t.calls[k].arg
                  answer == t.calls[k].result
              IN /\ answer \notin {"RepositoryError", "Exception"} =>
                        answer = head /\ t.original_branch = head
                 /\ (head = "" /\ answer = "") =>
                        /\ RestoreCalls(t) = {}
                        /\ (t.pc = "done" /\ RecordOf(i).status = "succeeded") =>
                              /\ SwitchedOk(config, t)
                              /\ CurrentBranch(t) = config.branch

\* The workflow started on a detached HEAD, switched to the configured
\* branch and succeeded without going back, although stay_on_branch is false.
C40_Witness ==
    /\ config.branch # NoBranch /\ ~config.stay_on_branch
    /\ \E k \in CallsOf(task[1], "get_current_branch") :
          task[1].calls[k] = [op |-> "get_current_branch", arg |-> "", result |-> ""]
    /\ task[1].original_branch = ""
    /\ SwitchedOk(config, task[1])
    /\ RestoreCalls(task[1]) = {}
    /\ task[1].pc = "done" /\ task[1].ret = "true"
    /\ Len(results) = 1 /\ results[1].status = "succeeded"

=============================================================================
